---------------------------- MODULE Spec2Model ----------------------------
(***************************************************************************)
(* AI-Chat: the streaming relay of backend/src/index.ts, the client request *)
(* lifecycle and stream decoder of frontend/app/page.tsx, and the message   *)
(* composer of frontend/app/components/ChatInput.tsx, and the session      *)
(* store of frontend/app/lib/storage.ts.                                   *)
(*                                                                         *)
(* Text is a sequence of one-character strings, so that concatenation is   *)
(* \o and a network chunk can cut a frame between any two characters.      *)
(*                                                                         *)
(* The specifications share the variables:                                 *)
(*   SpecRelay    one request handled by the Express server (both POST     *)
(*                endpoints), the upstream completion service being the    *)
(*                environment;                                             *)
(*   Spec         the React client (Home): handleSendMessage, the fetch,   *)
(*                the chunk reads of the response body, handleNewChat. The *)
(*                body of a streaming response is what the relay writes    *)
(*                for some upstream script (RelayOutput);                  *)
(*   SpecDecoder  the for loop of the stream decoder over the lines of a   *)
(*                response, frames and lines that are no frame, in any     *)
(*                order;                                                   *)
(*   SpecInput    ChatInput: one batch of files selected and normalized    *)
(*                (handleFileSelect, the FileReader reads, the PDF         *)
(*                conversions), the textarea, handleSubmit;                *)
(*   SpecFormat   formatMessagesForOpenAI over the turns of one request;   *)
(*   SpecTurns    the client with attachments on the user turns and every  *)
(*                response body read in one chunk;                         *)
(*   SpecStorage  the calls of the session store on valid storage;         *)
(*   SpecTurnsFair, SpecRelayFair                                          *)
(*                SpecTurns and SpecRelay when every awaited promise       *)
(*                settles and the upstream stream terminates or fails.     *)
(***************************************************************************)
EXTENDS Integers, Sequences, FiniteSets, TLC

VARIABLES
    \* ---- server: one request of backend/src/index.ts
    sreq,            \* the request: endpoint, req.body.messages, OPENAI_API_KEY,
                     \* and whether the client has closed the connection
    spc,             \* where the handler is
    resStatus,       \* res.status(..) (0: never set, the response is a 200)
    resJson,         \* the body given to res.json (NoBody: none)
    resHeaders,      \* the SSE headers have been set
    resFrames,       \* the frames given to res.write, in order
    resEnded,        \* res.end() has been called (or res.json sent the response)
    lateWrites,      \* writes made after the response ended
    upstreamCalls,   \* calls of openai.chat.completions.create
    consumed,        \* the upstream chunks the for-await loop has consumed
    caught,          \* what the catch block caught (NoError: it has not run)
    \* ---- client: the state of Home in frontend/app/page.tsx
    messages,            \* useState<Message[]>
    isLoading,           \* useState(false)
    streamingContent,    \* useState("")
    abortControllerRef,  \* the request whose AbortController the ref holds (0: null)
    nextReq,             \* the next request to be issued
    reqs,                \* the invocations of handleSendMessage
    \* ---- the stream decoder alone: the for loop over the lines of a response
    streamLines,     \* the lines of the response, in order
    lineIdx,         \* how many of them the loop has worked through
    dec,             \* accumulatedContent and the state updates made so far
    \* ---- the message composer: ChatInput of frontend/app/components/ChatInput.tsx
    input,           \* useState("")
    attachments,     \* useState<Attachment[]>([])
    isProcessing,    \* useState(false)
    disabled,        \* the prop (isLoading of Home)
    files,           \* the batch of files selected (e.target.files), <<>> before
    fsel,            \* the PDF whose conversion handleFileSelect awaits (0: none)
    readers,         \* the FileReader reads that are outstanding
    added,           \* the files appended by setAttachments, in the order appended
    warned,          \* the alerts shown: the file and what the alert says
    submits,         \* calls of handleSubmit
    sends,           \* calls of onSend
    lastSent,        \* what the last call of onSend passed on
    \* ---- the message formatter alone: formatMessagesForOpenAI
    reqMessages,        \* the messages of the request (the parameter messages)
    msgIdx,             \* how many of them the loop has formatted
    formattedMessages,  \* const formattedMessages
    \* ---- the session store alone: lib/storage.ts
    localStorage,       \* the two items of window.localStorage that the store uses
    call                \* the call of the store made last, and the storage it found

relayVars == <<sreq, spc, resStatus, resJson, resHeaders, resFrames, resEnded,
               lateWrites, upstreamCalls, consumed, caught>>
clientVars == <<messages, isLoading, streamingContent, abortControllerRef,
                nextReq, reqs>>
decoderVars == <<streamLines, lineIdx, dec>>
inputVars == <<input, attachments, isProcessing, disabled, files, fsel, readers,
               added, warned, submits, sends, lastSent>>
formatVars == <<reqMessages, msgIdx, formattedMessages>>
storageVars == <<localStorage, call>>
vars == <<relayVars, clientVars, decoderVars, inputVars, formatVars, storageVars>>

\* what the steps of one component leave alone
exceptClient == <<relayVars, decoderVars, inputVars, formatVars, storageVars>>
exceptRelay == <<clientVars, decoderVars, inputVars, formatVars, storageVars>>
exceptDecoder == <<relayVars, clientVars, inputVars, formatVars, storageVars>>
exceptInput == <<relayVars, clientVars, decoderVars, formatVars, storageVars>>
exceptFormat == <<relayVars, clientVars, decoderVars, inputVars, storageVars>>
exceptStorage == <<relayVars, clientVars, decoderVars, inputVars, formatVars>>

---------------------------------------------------------------------------
(* Bounds *)

\* upstream chunks one completion stream yields before it ends or throws
MaxChunks == 3
\* invocations of handleSendMessage in one behaviour
MaxReq == 2

---------------------------------------------------------------------------
(* Text *)

EmptyText == <<>>
He == <<"H", "e">>
Llo == <<"l", "l", "o">>
Boom == <<"b", "o", "o", "m">>
UnknownError == <<"U", "n", "k", "n", "o", "w", "n", " ", "e", "r", "r", "o", "r">>
NullRole == <<"n", "u", "l", "l", ".", "r", "o", "l", "e">>

\* the delta.content values of the model; Absent: the chunk has no delta.content
\* (undefined: no choices, or a delta without content)
Absent == <<"undefined">>
Fragments == {He, Llo}
Contents == Fragments \cup {EmptyText, Absent}
FinishReasons == {"null", "stop", "length"}
Chunks == [content : Contents, finish : FinishReasons]

\* what a promise can reject with, or a stream throw: an Error with a message, or a
\* value that is no Error
Errors == {[isError |-> TRUE, message |-> Boom], [isError |-> FALSE, message |-> EmptyText]}
NoError == [isError |-> FALSE, message |-> <<"none">>]

RECURSIVE Flatten(_)
Flatten(ss) == IF ss = <<>> THEN <<>> ELSE Head(ss) \o Flatten(Tail(ss))

---------------------------------------------------------------------------
(* StreamEvent frames, as the relay writes them *)

ContentFrame(c) == [type |-> "content", text |-> c]
DoneFrame == [type |-> "done", text |-> EmptyText]
ErrorFrame(m) == [type |-> "error", text |-> m]

IsTerminal(f) == f.type \in {"done", "error"}

---------------------------------------------------------------------------
(* The server: backend/src/index.ts *)

\* req.body.messages: undefined, a value that is no array, or an array. An array's
\* elements are turns ("turn") or a null the formatter cannot read ("null").
Undefined == [kind |-> "undefined", elems |-> <<>>]
NotAnArray == [kind |-> "string", elems |-> <<>>]
ArrayOf(es) == [kind |-> "array", elems |-> es]
MessagesInputs == {Undefined, NotAnArray, ArrayOf(<<>>), ArrayOf(<<"turn">>),
                   ArrayOf(<<"null">>)}
Endpoints == {"stream", "chat"}

NoBody == [kind |-> "none", text |-> EmptyText]
ErrorBody(m) == [kind |-> "error", text |-> m]
ContentBody(c) == [kind |-> "content", text |-> c]
MessagesRequired == <<"Messages array is required">>
KeyNotConfigured == <<"OpenAI API key not configured">>

\* mutant: the check without messages.length === 0
MessagesInvalid_NoEmptyCheck(m) ==
    \/ m.kind = "undefined"
    \/ m.kind # "array"

\* !messages || !Array.isArray(messages) || messages.length === 0
MessagesInvalid(m) ==
    \/ m.kind = "undefined"
    \/ m.kind # "array"
    \/ Len(m.elems) = 0

\* formatMessagesForOpenAI reads msg.role of every element: a null element throws
FormatThrows(m) == \E i \in 1..Len(m.elems) : m.elems[i] = "null"
FormatError == [isError |-> TRUE, message |-> NullRole]

\* error instanceof Error ? error.message : 'Unknown error'
ErrorMessageOf(e) == IF e.isError THEN e.message ELSE UnknownError

\* if (content): an absent or empty delta.content is falsy
Truthy(c) == c # Absent /\ c # EmptyText

\* mutant: if (content !== undefined) in place of if (content)
ChunkFrames_NoTruthyCheck(c) ==
    (IF c.content # Absent THEN <<ContentFrame(c.content)>> ELSE <<>>)
    \o (IF c.finish = "stop" THEN <<DoneFrame>> ELSE <<>>)

\* the frames the body of the for-await loop writes for one chunk
ChunkFrames(c) ==
    (IF Truthy(c.content) THEN <<ContentFrame(c.content)>> ELSE <<>>)
    \o (IF c.finish = "stop" THEN <<DoneFrame>> ELSE <<>>)

\* mutant: the catch block reports a fixed text in place of error.message
CatchFrames_NoMessage(e) == <<ErrorFrame(UnknownError)>>

\* the frames of the catch block
CatchFrames(e) == <<ErrorFrame(ErrorMessageOf(e))>>

\* The upstream contract (an opaque collaborator that yields incremental text, then
\* a completion signal or an error): the chunk that carries a finish_reason is the
\* last one with choices; only usage-only chunks (no choices) follow it, and the
\* stream ends only after it. It may throw at any point.
UsageChunk == [content |-> Absent, finish |-> "null"]
Finished(cs) == \E i \in 1..Len(cs) : cs[i].finish # "null"

\* res.write: a write after the response has ended is lost
ResWrite(fs) ==
    IF resEnded
    THEN /\ lateWrites' = lateWrites + Len(fs)
         /\ UNCHANGED resFrames
    ELSE /\ resFrames' = resFrames \o fs
         /\ UNCHANGED lateWrites

InitRelay ==
    /\ spc = "received"
    /\ resStatus = 0
    /\ resJson = NoBody
    /\ resHeaders = FALSE
    /\ resFrames = <<>>
    /\ resEnded = FALSE
    /\ lateWrites = 0
    /\ upstreamCalls = 0
    /\ consumed = <<>>
    /\ caught = NoError

\* res.status(code).json({ error }); return
Reject(code, m) ==
    /\ resStatus' = code
    /\ resJson' = ErrorBody(m)
    /\ resEnded' = TRUE
    /\ spc' = "closed"
    /\ UNCHANGED <<sreq, resHeaders, resFrames, lateWrites, upstreamCalls, consumed,
                   caught>>

\* mutant: the catch block writes the error frame and does not end the response
StreamCatch_NoEnd(e) ==
    /\ caught' = e
    /\ ResWrite(CatchFrames(e))
    /\ spc' = "closed"
    /\ UNCHANGED resEnded

\* the catch block of the streaming endpoint: one error frame, then res.end()
StreamCatch(e) ==
    /\ caught' = e
    /\ ResWrite(CatchFrames(e))
    /\ resEnded' = TRUE
    /\ spc' = "closed"

\* POST /api/chat/stream, from the request to the await of the upstream call
StreamReceive ==
    /\ spc = "received"
    /\ sreq.endpoint = "stream"
    /\ IF MessagesInvalid(sreq.messages)
       THEN Reject(400, MessagesRequired)
       ELSE IF ~sreq.apiKey
       THEN Reject(500, KeyNotConfigured)
       ELSE /\ resHeaders' = TRUE
            /\ IF FormatThrows(sreq.messages)
               THEN /\ StreamCatch(FormatError)
                    /\ UNCHANGED upstreamCalls
               ELSE /\ upstreamCalls' = upstreamCalls + 1
                    /\ spc' = "creating"
                    /\ UNCHANGED <<resFrames, resEnded, lateWrites, caught>>
            /\ UNCHANGED <<sreq, resStatus, resJson, consumed>>

\* await openai.chat.completions.create(..) resolves with the stream
CreateResolve ==
    /\ spc = "creating"
    /\ spc' = "iterating"
    /\ UNCHANGED <<sreq, resStatus, resJson, resHeaders, resFrames, resEnded,
                   lateWrites, upstreamCalls, consumed, caught>>

\* the upstream call rejects
CreateReject(e) ==
    /\ spc = "creating"
    /\ StreamCatch(e)
    /\ UNCHANGED <<sreq, resStatus, resJson, resHeaders, upstreamCalls, consumed>>

\* one iteration of for await (const chunk of stream)
UpstreamChunk(c) ==
    /\ spc = "iterating"
    /\ Len(consumed) < MaxChunks
    /\ Finished(consumed) => c = UsageChunk
    /\ ResWrite(ChunkFrames(c))
    /\ consumed' = Append(consumed, c)
    /\ UNCHANGED <<sreq, spc, resStatus, resJson, resHeaders, resEnded, upstreamCalls,
                   caught>>

\* the stream is exhausted: res.end()
UpstreamEnd ==
    /\ spc = "iterating"
    /\ Finished(consumed)
    /\ resEnded' = TRUE
    /\ spc' = "closed"
    /\ UNCHANGED <<sreq, resStatus, resJson, resHeaders, resFrames, lateWrites,
                   upstreamCalls, consumed, caught>>

\* the stream throws while it is iterated
UpstreamThrow(e) ==
    /\ spc = "iterating"
    /\ StreamCatch(e)
    /\ UNCHANGED <<sreq, resStatus, resJson, resHeaders, upstreamCalls, consumed>>

\* The client closes the connection while the streaming endpoint awaits the
\* upstream call or iterates the stream. The handler registers its 'close'
\* listener only after the try/catch statement has completed, and the listener
\* is empty: nothing of the handler reacts.
ClientDisconnect ==
    /\ sreq.endpoint = "stream"
    /\ spc \in {"creating", "iterating"}
    /\ ~sreq.closed
    /\ sreq' = [sreq EXCEPT !.closed = TRUE]
    /\ UNCHANGED <<spc, resStatus, resJson, resHeaders, resFrames, resEnded,
                   lateWrites, upstreamCalls, consumed, caught>>

\* POST /api/chat, from the request to the await of the upstream call
ChatReceive ==
    /\ spc = "received"
    /\ sreq.endpoint = "chat"
    /\ IF MessagesInvalid(sreq.messages)
       THEN Reject(400, MessagesRequired)
       ELSE IF ~sreq.apiKey
       THEN Reject(500, KeyNotConfigured)
       ELSE IF FormatThrows(sreq.messages)
       THEN Reject(500, ErrorMessageOf(FormatError))
       ELSE /\ upstreamCalls' = upstreamCalls + 1
            /\ spc' = "awaiting"
            /\ UNCHANGED <<sreq, resStatus, resJson, resHeaders, resFrames,
                           resEnded, lateWrites, consumed, caught>>

\* the completion arrives: res.json({ content, usage, model })
ChatResolve(c) ==
    /\ spc = "awaiting"
    /\ resJson' = ContentBody(c)
    /\ resEnded' = TRUE
    /\ spc' = "closed"
    /\ UNCHANGED <<sreq, resStatus, resHeaders, resFrames, lateWrites,
                   upstreamCalls, consumed, caught>>

\* the upstream call rejects: res.status(500).json({ error: errorMessage })
ChatReject(e) ==
    /\ spc = "awaiting"
    /\ Reject(500, ErrorMessageOf(e))



---------------------------------------------------------------------------
(* The client: frontend/app/page.tsx (state after construction) *)

ReqIds == 1..MaxReq

\* one invocation of handleSendMessage: where it is suspended (pc), whether its
\* AbortController has been aborted, its local apiMessages (the messages of the body
\* of its request, kept while the fetch is awaited: nothing reads it afterwards),
\* the response body it reads (script: which body,
\* pos: how many bytes have been read), its local accumulatedContent (acc); and, for the
\* properties, what it has published through setStreamingContent(accumulatedContent)
\* (pubs), the assistant turns it has appended (turns), the error frames it has
\* parsed (errs) and whether it read its stream to the end (eof)
NoReq == [pc |-> "idle", aborted |-> FALSE, apiMessages |-> <<>>, script |-> 0, pos |-> 0,
          acc |-> EmptyText, pubs |-> <<>>, turns |-> <<>>, errs |-> <<>>,
          eof |-> FALSE]

InitClient ==
    /\ messages = <<>>
    /\ isLoading = FALSE
    /\ streamingContent = EmptyText
    /\ abortControllerRef = 0
    /\ nextReq = 1
    /\ reqs = [r \in ReqIds |-> NoReq]

---------------------------------------------------------------------------
(* The wire: what res.write sends for a frame, and the body of a response *)

DataPrefix == <<"d", "a", "t", "a", ":", " ">>
Quote == <<"\"">>
NewLine == "\n"
TypeContent == <<"{", "\"", "t", "y", "p", "e", "\"", ":", "\"", "c", "o", "n", "t",
                 "e", "n", "t", "\"", ",", "\"", "c", "o", "n", "t", "e", "n", "t",
                 "\"", ":">>
TypeError == <<"{", "\"", "t", "y", "p", "e", "\"", ":", "\"", "e", "r", "r", "o",
               "r", "\"", ",", "\"", "e", "r", "r", "o", "r", "\"", ":">>
TypeDone == <<"{", "\"", "t", "y", "p", "e", "\"", ":", "\"", "d", "o", "n", "e",
              "\"", "}">>

\* JSON.stringify of a string of the model (letters, spaces and dots: no escapes)
StringifyText(t) == Quote \o t \o Quote

\* JSON.stringify({ type: 'content', content }), ({ type: 'done', usage: undefined })
\* and ({ type: 'error', error })
Stringify(f) ==
    CASE f.type = "content" -> TypeContent \o StringifyText(f.text) \o <<"}">>
      [] f.type = "error" -> TypeError \o StringifyText(f.text) \o <<"}">>
      [] OTHER -> TypeDone

\* `data: ${JSON.stringify(..)}\n\n`
Encode(f) == DataPrefix \o Stringify(f) \o <<NewLine, NewLine>>

EncodeAll(fs) == Flatten([i \in 1..Len(fs) |-> Encode(fs[i])])

\* What the streaming endpoint writes for a validated request, given what the
\* upstream does: the call rejects (create), or the stream yields chunks and then
\* ends (ending = NoError) or throws
RelayOutput(u) ==
    IF u.create # NoError
    THEN CatchFrames(u.create)
    ELSE Flatten([i \in 1..Len(u.chunks) |-> ChunkFrames(u.chunks[i])])
         \o (IF u.ending # NoError THEN CatchFrames(u.ending) ELSE <<>>)

Script(cs, ending) == [create |-> NoError, chunks |-> cs, ending |-> ending]
Chunk(c, f) == [content |-> c, finish |-> f]
BoomError == [isError |-> TRUE, message |-> Boom]

\* the upstream behaviours behind the responses the client reads:
\*   1  "He", "llo", then completion (finish_reason 'stop')
\*   2  "He", then the stream throws
\*   3  "He", then completion by length (finish_reason 'length')
UpstreamScripts ==
    << Script(<<Chunk(He, "null"), Chunk(Llo, "null"), Chunk(Absent, "stop")>>, NoError),
       Script(<<Chunk(He, "null")>>, BoomError),
       Script(<<Chunk(He, "null"), Chunk(Absent, "length")>>, NoError) >>
ScriptIds == 1..Len(UpstreamScripts)

\* the bytes (characters) of the response body of each script
Bodies == [i \in ScriptIds |-> EncodeAll(RelayOutput(UpstreamScripts[i]))]
\* the length of the longest body
MaxBody == CHOOSE n \in 0..200 : /\ \A i \in ScriptIds : Len(Bodies[i]) <= n
                                /\ \E i \in ScriptIds : Len(Bodies[i]) = n

---------------------------------------------------------------------------
(* The stream decoder: the body of the read loop of handleSendMessage *)

HasPrefix(s, p) == Len(s) >= Len(p) /\ SubSeq(s, 1, Len(p)) = p
HasSuffix(s, p) == Len(s) >= Len(p) /\ SubSeq(s, Len(s) - Len(p) + 1, Len(s)) = p

\* chunk.split("\n")
RECURSIVE Split(_)
Split(s) ==
    LET nl == {i \in 1..Len(s) : s[i] = NewLine}
    IN  IF nl = {}
        THEN <<s>>
        ELSE LET i == CHOOSE j \in nl : \A k \in nl : j <= k
             IN  <<SubSeq(s, 1, i - 1)>> \o Split(SubSeq(s, i + 1, Len(s)))

Invalid == [type |-> "invalid", text |-> EmptyText]

\* a JSON string literal without escapes, and the text it denotes
IsStringLiteral(s) ==
    /\ Len(s) >= 2
    /\ s[1] = "\"" /\ s[Len(s)] = "\""
    /\ \A i \in 2..(Len(s) - 1) : s[i] # "\"" /\ s[i] # "\\"
Unquote(s) == SubSeq(s, 2, Len(s) - 1)

\* JSON.parse on the texts a response body is made of: the value of a frame object
\* as the relay writes it; anything else (a cut-off object, the tail of one, an
\* empty text) throws a SyntaxError (Invalid). A JSON value that is no frame object
\* is Invalid as well: the try block does nothing with it (null: data.type throws
\* a TypeError that the empty catch block catches; an object with another type:
\* no branch is taken)
JSONParse(b) ==
    LET field(p) == SubSeq(b, Len(p) + 1, Len(b) - 1)
        object(p) == HasPrefix(b, p) /\ HasSuffix(b, <<"}">>)
                     /\ Len(b) > Len(p) /\ IsStringLiteral(field(p))
    IN  IF b = TypeDone THEN DoneFrame
        ELSE IF object(TypeContent) THEN ContentFrame(Unquote(field(TypeContent)))
        ELSE IF object(TypeError) THEN ErrorFrame(Unquote(field(TypeError)))
        ELSE Invalid

\* What the decoder holds while it works through a chunk: the local
\* accumulatedContent (acc) and the pending state updates, streamingContent (sc) and
\* the turns to append to messages (turns); pubs and errs record the values
\* published by setStreamingContent(accumulatedContent) and the error frames parsed.
Decoder(acc, sc) ==
    [acc |-> acc, sc |-> sc, turns |-> <<>>, pubs |-> <<>>, errs |-> <<>>]

\* line.startsWith("data: ") and JSON.parse(line.slice(6)): the object of the
\* line, Invalid for a line that is skipped (no "data: " prefix, or JSON.parse
\* throws a SyntaxError, which the empty catch block catches)
LineEvent(line) ==
    IF HasPrefix(line, DataPrefix)
    THEN JSONParse(SubSeq(line, Len(DataPrefix) + 1, Len(line)))
    ELSE Invalid

\* mutant: a line that is no frame clears the accumulator and surfaces an error turn
OnEvent_InvalidSurfaces(d, data) ==
    CASE data.type = "content" ->
            [d EXCEPT !.acc = d.acc \o data.text,
                      !.sc = d.acc \o data.text,
                      !.pubs = Append(d.pubs, d.acc \o data.text)]
      [] data.type = "done" ->
            [d EXCEPT !.turns = Append(d.turns, d.acc),
                      !.sc = EmptyText]
      [] data.type = "error" ->
            [d EXCEPT !.errs = Append(d.errs, data.text)]
      [] OTHER -> [d EXCEPT !.turns = Append(d.turns, <<"Unexpected token">>),
                            !.sc = EmptyText]

\* the try block on the parsed object. The Error thrown for an error frame is
\* thrown inside the try block, so the same empty catch block catches it: it
\* changes nothing
OnEvent(d, data) ==
    CASE data.type = "content" ->
            [d EXCEPT !.acc = d.acc \o data.text,
                      !.sc = d.acc \o data.text,
                      !.pubs = Append(d.pubs, d.acc \o data.text)]
      [] data.type = "done" ->
            [d EXCEPT !.turns = Append(d.turns, d.acc),
                      !.sc = EmptyText]
      [] data.type = "error" ->
            [d EXCEPT !.errs = Append(d.errs, data.text)]
      [] OTHER -> d

\* the body of for (const line of lines)
ProcessLine(d, line) == OnEvent(d, LineEvent(line))

RECURSIVE OnEvents(_, _)
OnEvents(d, evs) ==
    IF evs = <<>> THEN d ELSE OnEvents(OnEvent(d, Head(evs)), Tail(evs))

\* the objects of the lines of a chunk, in order
ChunkEvents(chunk) ==
    LET lines == Split(chunk)
    IN  [i \in 1..Len(lines) |-> LineEvent(lines[i])]

\* one iteration of the read loop on the chunk the reader returned
ProcessChunk(d, chunk) == OnEvents(d, ChunkEvents(chunk))

\* ChunkEvents of every chunk a body can be cut into (the k bytes that follow the
\* first p), computed once
BodyChunkEvents ==
    [i \in ScriptIds |->
        [p \in 0..(Len(Bodies[i]) - 1) |->
            [k \in 1..(Len(Bodies[i]) - p) |->
                SelectSeq(ChunkEvents(SubSeq(Bodies[i], p + 1, p + k)),
                          LAMBDA e : e # Invalid)]]]

---------------------------------------------------------------------------
(* The stream decoder alone: the for loop over the lines of a response *)

\* lines one response is made of
MaxLines == 3

\* the line of a frame, as the relay writes it
FrameLine(f) == DataPrefix \o Stringify(f)
GoodLines == {FrameLine(ContentFrame(He)), FrameLine(ContentFrame(Llo)),
              FrameLine(DoneFrame), FrameLine(ErrorFrame(Boom))}

\* the head and the tail of a content frame cut after `"content":`
CutLine == DataPrefix \o TypeContent
TailLine == StringifyText(He) \o <<"}">>
\* data: null, and data: {"type":"ping"}
NullLine == DataPrefix \o <<"n", "u", "l", "l">>
PingLine == DataPrefix \o <<"{", "\"", "t", "y", "p", "e", "\"", ":", "\"", "p", "i", "n",
                            "g", "\"", "}">>
\* the lines that are no frame: the blank line that ends a frame, pieces of a frame,
\* JSON values that are no frame object
BadLines == {EmptyText, CutLine, TailLine, NullLine, PingLine}
Lines == GoodLines \cup BadLines
LineSeqs == UNION {[1..n -> Lines] : n \in 0..MaxLines}

InitDecoder ==
    /\ streamLines = <<>>
    /\ lineIdx = 0
    /\ dec = Decoder(EmptyText, EmptyText)

\* one iteration of for (const line of lines)
DecodeLine ==
    /\ lineIdx < Len(streamLines)
    /\ dec' = ProcessLine(dec, streamLines[lineIdx + 1])
    /\ lineIdx' = lineIdx + 1
    /\ UNCHANGED streamLines

---------------------------------------------------------------------------
(* The message composer: frontend/app/components/ChatInput.tsx *)

\* files in the batch that is selected
MaxFiles == 2
\* calls of handleSubmit in one behaviour
MaxSubmits == 2

ALLOWED_IMAGE_TYPES == {"image/jpeg", "image/png", "image/gif", "image/webp"}
ALLOWED_TEXT_TYPES == {"text/plain", "text/markdown", "application/json", "text/csv"}
MAX_FILE_SIZE == 20 * 1024 * 1024
MAX_PDF_PAGES == 10

\* a File: its name, its declared type, its size in bytes, what it holds (content:
\* the bytes of an image or the text of a text file; pages: the pages of a PDF)
File(name, type, size, content, pages) ==
    [name |-> name, type |-> type, size |-> size, content |-> content, pages |-> pages]
Png == File(<<"a", ".", "p", "n", "g">>, "image/png", 1, <<"P">>, 0)
Txt == File(<<"n", ".", "t", "x", "t">>, "text/plain", 1, <<"x">>, 0)
\* an empty file with no declared type, a text file by its extension
EmptyMd == File(<<"e", ".", "m", "d">>, "", 0, EmptyText, 0)
Pdf2 == File(<<"d", ".", "p", "d", "f">>, "application/pdf", 2, EmptyText, 2)
\* a PDF by its extension only, of exactly the maximum size, with one page too many
BigPdf == File(<<"b", ".", "p", "d", "f">>, "", MAX_FILE_SIZE, EmptyText, MAX_PDF_PAGES + 1)
\* an image above the maximum size, and a file of a type that is not supported
Huge == File(<<"h", ".", "p", "n", "g">>, "image/png", MAX_FILE_SIZE + 1, <<"P">>, 0)
Exe == File(<<"x", ".", "e", "x", "e">>, "application/octet-stream", 1, <<"M">>, 0)
Files == {Png, Txt, EmptyMd, Pdf2, BigPdf, Huge, Exe}
\* e.target.files: the batches that can be selected
FileLists == UNION {[1..n -> Files] : n \in 1..MaxFiles}

\* the values of the textarea
Inputs == {EmptyText, <<" ">>, <<" ", "h", "i">>}

\* input.trim()
RECURSIVE TrimStart(_)
TrimStart(s) == IF s # <<>> /\ Head(s) = " " THEN TrimStart(Tail(s)) ELSE s
RECURSIVE TrimEnd(_)
TrimEnd(s) ==
    IF s # <<>> /\ s[Len(s)] = " " THEN TrimEnd(SubSeq(s, 1, Len(s) - 1)) ELSE s
Trim(s) == TrimEnd(TrimStart(s))

\* mutant: the size check rejects a file of exactly the maximum size
TooLarge_AtLimit(file) == file.size >= MAX_FILE_SIZE

\* file.size > MAX_FILE_SIZE
TooLarge(file) == file.size > MAX_FILE_SIZE

IsImage(file) == file.type \in ALLOWED_IMAGE_TYPES
IsText(file) ==
    \/ file.type \in ALLOWED_TEXT_TYPES
    \/ HasSuffix(file.name, <<".", "t", "x", "t">>)
    \/ HasSuffix(file.name, <<".", "m", "d">>)
IsPdf(file) ==
    file.type = "application/pdf" \/ HasSuffix(file.name, <<".", "p", "d", "f">>)
\* !isImage && !isText && !isPdf
Unsupported(file) == ~IsImage(file) /\ ~IsText(file) /\ ~IsPdf(file)

\* reader.readAsDataURL(file): event.target.result
DataURL(file) == <<"data:", file.type, ";base64,">> \o file.content
\* reader.readAsText(file): event.target.result
TextOf(file) == file.content
\* canvas.toDataURL("image/jpeg", 0.8) of page k of the document
PageImage(file, k) == <<"data:image/jpeg;base64,">> \o file.name \o <<"#", ToString(k)>>

\* for (let i = 1; i <= numPages; i++) { .. images.push(imageData) }
RECURSIVE RenderPages(_, _, _, _)
RenderPages(file, i, numPages, images) ==
    IF i > numPages
    THEN images
    ELSE RenderPages(file, i + 1, numPages, Append(images, PageImage(file, i)))

\* Math.min
Min(a, b) == IF a <= b THEN a ELSE b

\* mutant: every page of the document is rendered
ConvertPdfToImages_NoClamp(file) == RenderPages(file, 1, file.pages, <<>>)

\* convertPdfToImages, when the document opens and every page renders
ConvertPdfToImages(file) ==
    RenderPages(file, 1, Min(file.pages, MAX_PDF_PAGES), <<>>)

\* an Attachment; id: the place of the file in the batch; a field that is not set
\* is Absent (undefined)
Attachment(i, file, type) ==
    [id |-> i, name |-> file.name, type |-> type,
     preview |-> Absent, base64 |-> Absent, pageImages |-> Absent]

\* mutant: the onload handler of an image does not set base64
ImageAttachment_NoBase64(i, file) ==
    [Attachment(i, file, "image") EXCEPT !.preview = DataURL(file)]

\* the attachment an image's onload handler appends
ImageAttachment(i, file) ==
    [Attachment(i, file, "image") EXCEPT !.preview = DataURL(file),
                                         !.base64 = DataURL(file)]
\* the attachment a text file's onload handler appends
TextAttachment(i, file) ==
    [Attachment(i, file, "text") EXCEPT !.preview = TextOf(file)]
\* the attachment appended for a PDF: pageImages, and pageImages[0] as preview
PdfAttachment(i, file) ==
    LET pageImages == ConvertPdfToImages(file)
    IN  [Attachment(i, file, "pdf") EXCEPT
            !.pageImages = pageImages,
            !.preview = IF Len(pageImages) > 0 THEN pageImages[1] ELSE Absent]

\* mutant: the new attachment is put first
AppendAttachment_First(prev, attachment) == <<attachment>> \o prev

\* setAttachments(prev => [...prev, attachment])
AppendAttachment(prev, attachment) == Append(prev, attachment)

\* alert(..) for file i of the batch
Alert(i, what) == [file |-> i, alert |-> what]
TooLargeAlert == "is too large. Max size is 20MB."
NotSupportedAlert == "is not supported."
PdfFailedAlert == "Failed to process PDF"

\* The for loop of handleFileSelect from file i on, up to its next await: a file
\* that is too large or not supported is reported and skipped, the read of an image
\* or of a text file is started and not awaited, the conversion of a PDF is
\* awaited (at: the PDF the loop is suspended at, 0 when the loop has ended).
RECURSIVE FileLoop(_, _, _)
FileLoop(fs, i, st) ==
    IF i > Len(fs) THEN [st EXCEPT !.at = 0]
    ELSE IF TooLarge(fs[i])
         THEN FileLoop(fs, i + 1, [st EXCEPT !.warned = @ \cup {Alert(i, TooLargeAlert)}])
    ELSE IF Unsupported(fs[i])
         THEN FileLoop(fs, i + 1, [st EXCEPT !.warned = @ \cup {Alert(i, NotSupportedAlert)}])
    ELSE IF IsPdf(fs[i]) THEN [st EXCEPT !.at = i]
    ELSE FileLoop(fs, i + 1, [st EXCEPT !.readers = @ \cup {i}])

\* the loop runs on from file i; the finally block, setIsProcessing(false), runs
\* when it has ended
ContinueLoop(i, w) ==
    LET st == FileLoop(files, i, [readers |-> readers, warned |-> w, at |-> 0])
    IN  /\ readers' = st.readers
        /\ warned' = st.warned
        /\ fsel' = st.at
        /\ isProcessing' = (st.at # 0)

InitInput ==
    /\ input = EmptyText
    /\ attachments = <<>>
    /\ isProcessing = FALSE
    /\ disabled = FALSE
    /\ files = <<>>
    /\ fsel = 0
    /\ readers = {}
    /\ added = <<>>
    /\ warned = {}
    /\ submits = 0
    /\ sends = 0
    /\ lastSent = [text |-> EmptyText, attachments |-> <<>>]

\* handleFileSelect, up to its first await (the attach button is disabled while
\* disabled || isProcessing); the model follows one batch
HandleFileSelect(fs) ==
    /\ files = <<>>
    /\ ~disabled /\ ~isProcessing
    /\ files' = fs
    /\ LET st == FileLoop(fs, 1, [readers |-> {}, warned |-> {}, at |-> 0])
       IN  /\ readers' = st.readers
           /\ warned' = st.warned
           /\ fsel' = st.at
           /\ isProcessing' = (st.at # 0)
    /\ UNCHANGED <<input, attachments, disabled, added, submits, sends, lastSent>>

\* reader.onload of the read of file i
ReaderLoad(i) ==
    /\ i \in readers
    /\ readers' = readers \ {i}
    /\ attachments' = AppendAttachment(attachments,
                         IF IsImage(files[i]) THEN ImageAttachment(i, files[i])
                                              ELSE TextAttachment(i, files[i]))
    /\ added' = Append(added, i)
    /\ UNCHANGED <<input, isProcessing, disabled, files, fsel, warned, submits,
                   sends, lastSent>>

\* mutant: the failure of a PDF ends the loop
AfterPdfFailure_EndsLoop(fs, i) == Len(fs) + 1

\* the catch block of the conversion is inside the loop: the loop goes on with the
\* file after the PDF
AfterPdfFailure(fs, i) == i + 1

\* await convertPdfToImages(file) resolves
PdfResolve ==
    /\ fsel # 0
    /\ attachments' = AppendAttachment(attachments, PdfAttachment(fsel, files[fsel]))
    /\ added' = Append(added, fsel)
    /\ ContinueLoop(fsel + 1, warned)
    /\ UNCHANGED <<input, disabled, files, submits, sends, lastSent>>

\* await convertPdfToImages(file) rejects (the document does not open, or a page
\* does not render): console.error, alert
PdfReject ==
    /\ fsel # 0
    /\ ContinueLoop(AfterPdfFailure(files, fsel),
                    warned \cup {Alert(fsel, PdfFailedAlert)})
    /\ UNCHANGED <<input, attachments, disabled, files, added, submits, sends, lastSent>>

\* removeAttachment(id)
RemoveAttachment(id) ==
    /\ \E k \in 1..Len(attachments) : attachments[k].id = id
    /\ attachments' = SelectSeq(attachments, LAMBDA a : a.id # id)
    /\ UNCHANGED <<input, isProcessing, disabled, files, fsel, readers, added,
                   warned, submits, sends, lastSent>>

\* onChange of the textarea (disabled while disabled || isProcessing)
SetInput(value) ==
    /\ ~disabled /\ ~isProcessing
    /\ value # input
    /\ input' = value
    /\ UNCHANGED <<attachments, isProcessing, disabled, files, fsel, readers, added,
                   warned, submits, sends, lastSent>>

\* mutant: the condition of handleSubmit without !disabled
CanSubmit_IgnoresDisabled(i, as, d, p) == (Trim(i) # EmptyText \/ Len(as) > 0) /\ ~p

\* (input.trim() || attachments.length > 0) && !disabled && !isProcessing
CanSubmit(i, as, d, p) == (Trim(i) # EmptyText \/ Len(as) > 0) /\ ~d /\ ~p

\* handleSubmit; onSend is handleSendMessage of Home, which sets isLoading
HandleSubmit ==
    /\ submits < MaxSubmits
    /\ submits' = submits + 1
    /\ IF CanSubmit(input, attachments, disabled, isProcessing)
       THEN /\ sends' = sends + 1
            /\ lastSent' = [text |-> Trim(input), attachments |-> attachments]
            /\ input' = EmptyText
            /\ attachments' = <<>>
            /\ disabled' = TRUE
       ELSE UNCHANGED <<sends, lastSent, input, attachments, disabled>>
    /\ UNCHANGED <<isProcessing, files, fsel, readers, added, warned>>

\* the request of Home ends: setIsLoading(false)
RequestEnds ==
    /\ disabled
    /\ disabled' = FALSE
    /\ UNCHANGED <<input, attachments, isProcessing, files, fsel, readers, added,
                   warned, submits, sends, lastSent>>

\* messageAttachments of handleSendMessage
MessageAttachment(att) ==
    [id |-> att.id, type |-> att.type, name |-> att.name,
     preview |-> IF att.type = "image" THEN att.base64 ELSE att.preview,
     pageImages |-> att.pageImages]

\* att.preview || ""
OrEmpty(v) == IF v = Absent THEN EmptyText ELSE v

\* mutant: a PDF goes as one entry, its first page
ApiAttachments_PreviewOnly(att) ==
    <<[type |-> IF att.type = "pdf" THEN "image" ELSE att.type,
       data |-> OrEmpty(att.preview), name |-> att.name]>>

\* apiMsg.attachments for one attachment of a turn: the pages of a PDF as images,
\* one entry otherwise
ApiAttachments(att) ==
    IF att.type = "pdf" /\ att.pageImages # Absent
    THEN [k \in 1..Len(att.pageImages) |->
            [type |-> "image", data |-> att.pageImages[k],
             name |-> att.name \o <<" (page ", ToString(k), ")">>]]
    ELSE <<[type |-> IF att.type = "pdf" THEN "image" ELSE att.type,
            data |-> OrEmpty(att.preview), name |-> att.name]>>

RECURSIVE ApiAttachmentsOf(_)
ApiAttachmentsOf(atts) ==
    IF atts = <<>> THEN <<>>
    ELSE ApiAttachments(MessageAttachment(Head(atts))) \o ApiAttachmentsOf(Tail(atts))

---------------------------------------------------------------------------
(* The message formatter: formatMessagesForOpenAI of backend/src/index.ts, *)
(* on the wire form of the turns that handleSendMessage builds             *)

\* turns of one conversation
MaxTurns == 2

Hi == <<"h", "i">>
Hello == He \o Llo

\* a Message of Home: role, content, attachments (<<>>: the field is undefined)
Message(role, content, atts) == [role |-> role, content |-> content, attachments |-> atts]

\* apiMsg.attachments of a message: the entries of its attachments, in order (<<>>:
\* the field is not set)
RECURSIVE WireAttachments(_)
WireAttachments(atts) ==
    IF atts = <<>> THEN <<>>
    ELSE ApiAttachments(Head(atts)) \o WireAttachments(Tail(atts))

\* apiMessages: updatedMessages.map((msg) => ..)
ApiMessage(msg) ==
    [role |-> msg.role, content |-> msg.content,
     attachments |-> WireAttachments(msg.attachments)]

\* the attachments of a user turn, as ChatInput hands them to onSend
PngAttachment == MessageAttachment(ImageAttachment(1, Png))
TxtAttachment == MessageAttachment(TextAttachment(2, Txt))
Pdf2Attachment == MessageAttachment(PdfAttachment(3, Pdf2))
\* the attachment of a PDF for none of whose pages canvas.getContext("2d") gave a
\* context: the loop of convertPdfToImages continues past every page and resolves
\* with [], so pageImages is [] and preview, pageImages[0], is undefined
BlankPdfAttachment ==
    MessageAttachment([Attachment(4, Pdf2, "pdf") EXCEPT !.pageImages = <<>>,
                                                       !.preview = Absent])
\* the turns of the conversations: user turns with and without text and
\* attachments, an assistant turn
ClientTurns ==
    {Message("user", Hi, <<>>),
     Message("user", EmptyText, <<PngAttachment>>),
     Message("user", Hi, <<PngAttachment>>),
     Message("user", Hi, <<Pdf2Attachment>>),
     Message("user", EmptyText, <<Pdf2Attachment, PngAttachment>>),
     Message("user", Hi, <<TxtAttachment, PngAttachment>>),
     Message("user", EmptyText, <<BlankPdfAttachment>>),
     Message("assistant", Hello, <<>>)}
\* an assistant turn that carries an attachment (no client sends it)
AssistantWithAttachment ==
    [role |-> "assistant", content |-> Hello,
     attachments |-> <<[type |-> "image", data |-> DataURL(Png), name |-> Png.name]>>]
WireTurns == {ApiMessage(t) : t \in ClientTurns} \cup {AssistantWithAttachment}
Conversations == UNION {[1..n -> WireTurns] : n \in 0..MaxTurns}

SYSTEM_PROMPT == <<"You are a helpful, friendly, and knowledgeable AI assistant. ..">>

\* the content of an upstream message: a string, or an array of parts
TextContent(t) == [kind |-> "string", text |-> t, parts |-> <<>>]
PartsContent(ps) == [kind |-> "parts", text |-> EmptyText, parts |-> ps]
ImagePart(url) == [type |-> "image_url", image_url |-> [url |-> url, detail |-> "auto"]]
TextPart(t) == [type |-> "text", text |-> t]

\* mutant: no system message is put first
InitialMessages_Empty == <<>>

\* const formattedMessages = [{ role: 'system', content: SYSTEM_PROMPT }]
InitialMessages == <<[role |-> "system", content |-> TextContent(SYSTEM_PROMPT)]>>

\* mutant: the label and the content are not separated by a newline
FileLabel_NoNewline(name) == <<"[", "F", "i", "l", "e", ":", " ">> \o name \o <<"]">>

\* `[File: ${attachment.name}]\n`
FileLabel(name) == <<"[", "F", "i", "l", "e", ":", " ">> \o name \o <<"]", "\n">>

\* the parts pushed for one attachment: none for a type that is neither 'image'
\* nor 'text'
AttachmentPart(attachment) ==
    IF attachment.type = "image" THEN <<ImagePart(attachment.data)>>
    ELSE IF attachment.type = "text"
         THEN <<TextPart(FileLabel(attachment.name) \o attachment.data)>>
    ELSE <<>>

\* for (const attachment of msg.attachments)
RECURSIVE AttachmentParts(_)
AttachmentParts(atts) ==
    IF atts = <<>> THEN <<>>
    ELSE AttachmentPart(Head(atts)) \o AttachmentParts(Tail(atts))

\* if (msg.content) contentParts.push({ type: 'text', text: msg.content })
MessageText(msg) == IF msg.content # EmptyText THEN <<TextPart(msg.content)>> ELSE <<>>

\* mutant: the typed text is put before the attachments
ContentParts_TextFirst(msg) == MessageText(msg) \o AttachmentParts(msg.attachments)

\* contentParts of a user turn with attachments
ContentParts(msg) == AttachmentParts(msg.attachments) \o MessageText(msg)

\* mutant: the attachments of an assistant turn are formatted as those of a user turn
AssistantMessage_WithParts(msg) ==
    [role |-> "assistant",
     content |-> IF Len(msg.attachments) > 0 THEN PartsContent(ContentParts(msg))
                                              ELSE TextContent(msg.content)]

\* formattedMessages.push({ role: 'assistant', content: msg.content })
AssistantMessage(msg) == [role |-> "assistant", content |-> TextContent(msg.content)]

\* the body of for (const msg of messages): the message pushed for msg
FormatMessage(msg) ==
    IF msg.role = "assistant" THEN AssistantMessage(msg)
    ELSE IF Len(msg.attachments) > 0
         THEN [role |-> "user", content |-> PartsContent(ContentParts(msg))]
    ELSE [role |-> "user", content |-> TextContent(msg.content)]

InitFormat ==
    /\ reqMessages = <<>>
    /\ msgIdx = 0
    /\ formattedMessages = InitialMessages

\* one iteration of for (const msg of messages)
FormatNext ==
    /\ msgIdx < Len(reqMessages)
    /\ formattedMessages' = Append(formattedMessages, FormatMessage(reqMessages[msgIdx + 1]))
    /\ msgIdx' = msgIdx + 1
    /\ UNCHANGED reqMessages

---------------------------------------------------------------------------
(* The session store: frontend/app/lib/storage.ts, in the browser *)

\* null
Null == "null"
SessionIds == {"a", "b"}
\* the times of the timestamps (createdAt, updatedAt, timestamp), as getTime() gives them
Times == {1, 2}

\* a Date object, and the string that JSON.stringify writes for it and JSON.parse
\* reads back
DateOf(t) == [type |-> "Date", time |-> t]
IsoString(t) == [type |-> "string", time |-> t]
\* a Message with timestamp: new Date()
MessageAt(t) == [role |-> "user", content |-> Hi, timestamp |-> DateOf(t)]
ChatSession(id, msgs, updatedAt) ==
    [id |-> id, title |-> <<"New Chat">>, messages |-> msgs, createdAt |-> 1,
     updatedAt |-> updatedAt]
\* the sessions handed to saveSession
Sessions ==
    {ChatSession(id, msgs, u) : id \in SessionIds, msgs \in {<<>>, <<MessageAt(1)>>},
                                u \in Times}

\* JSON.parse(JSON.stringify(sessions)): a Date comes back as a string
JsonMessage(m) == [m EXCEPT !.timestamp = IsoString(m.timestamp.time)]
JsonSession(s) ==
    [s EXCEPT !.messages = [k \in 1..Len(s.messages) |-> JsonMessage(s.messages[k])]]
Json(ss) == [k \in 1..Len(ss) |-> JsonSession(ss[k])]

\* sessions.sort((a, b) => getTime(b.updatedAt) - getTime(a.updatedAt)): a stable
\* sort, most recent first
RECURSIVE InsertByUpdatedAt(_, _)
InsertByUpdatedAt(sorted, s) ==
    IF sorted = <<>> THEN <<s>>
    ELSE IF Head(sorted).updatedAt >= s.updatedAt
         THEN <<Head(sorted)>> \o InsertByUpdatedAt(Tail(sorted), s)
    ELSE <<s>> \o sorted
RECURSIVE SortByUpdatedAt(_)
SortByUpdatedAt(ss) ==
    IF ss = <<>> THEN <<>>
    ELSE InsertByUpdatedAt(SortByUpdatedAt(SubSeq(ss, 1, Len(ss) - 1)), ss[Len(ss)])

\* an item of localStorage that is not set, and one that holds an array of sessions
NoItem == [present |-> FALSE, value |-> <<>>]
Item(ss) == [present |-> TRUE, value |-> ss]

\* loadSessions() on storage ls
LoadSessions(ls) ==
    IF ~ls.sessions.present THEN <<>> ELSE SortByUpdatedAt(ls.sessions.value)

\* localStorage.setItem(SESSIONS_KEY, JSON.stringify(sessions))
SetSessions(ls, ss) == [ls EXCEPT !.sessions = Item(Json(ss))]

\* sessions.findIndex(s => s.id === id), counted from 1 (0: none)
FindIndex(ss, id) ==
    IF \E k \in 1..Len(ss) : ss[k].id = id
    THEN CHOOSE k \in 1..Len(ss) : ss[k].id = id /\ \A j \in 1..(k - 1) : ss[j].id # id
    ELSE 0

\* getSession(id) on storage ls; <<>>: null
GetSession(ls, id) ==
    LET sessions == LoadSessions(ls)
        k == FindIndex(sessions, id)
    IN  IF k = 0 THEN <<>> ELSE <<sessions[k]>>

\* getActiveSessionId() on storage ls
GetActiveSessionId(ls) == ls.active

\* the call that was made last, and the storage it found
Call(fn, id, ss) == [fn |-> fn, id |-> id, session |-> ss, before |-> localStorage]

InitStorage ==
    /\ localStorage = [sessions |-> NoItem, active |-> Null]
    /\ call = [fn |-> "none", id |-> Null, session |-> <<>>, before |-> localStorage]

\* saveSession(session)
SaveSession(session) ==
    /\ LET sessions == LoadSessions(localStorage)
           existingIndex == FindIndex(sessions, session.id)
       IN  localStorage' =
               SetSessions(localStorage,
                           IF existingIndex > 0
                           THEN [sessions EXCEPT ![existingIndex] = session]
                           ELSE Append(sessions, session))
    /\ call' = Call("saveSession", session.id, <<session>>)

\* clearActiveSessionId() on storage ls
RemoveActive(ls) == [ls EXCEPT !.active = Null]

\* mutant: deleteSession leaves the active session id as it is
AfterDelete_KeepsActive(ls, id) == ls

\* if (getActiveSessionId() === id) clearActiveSessionId()
AfterDelete(ls, id) == IF GetActiveSessionId(ls) = id THEN RemoveActive(ls) ELSE ls

\* deleteSession(id)
DeleteSession(id) ==
    /\ LET sessions == LoadSessions(localStorage)
           filtered == SelectSeq(sessions, LAMBDA s : s.id # id)
       IN  localStorage' = AfterDelete(SetSessions(localStorage, filtered), id)
    /\ call' = Call("deleteSession", id, <<>>)

\* setActiveSessionId(id)
SetActiveSessionId(id) ==
    /\ localStorage' = [localStorage EXCEPT !.active = id]
    /\ call' = Call("setActiveSessionId", id, <<>>)

\* clearActiveSessionId()
ClearActiveSessionId ==
    /\ localStorage' = RemoveActive(localStorage)
    /\ call' = Call("clearActiveSessionId", Null, <<>>)

---------------------------------------------------------------------------
(* The client: handleSendMessage and handleNewChat of Home *)

UserTexts == {<<"h", "i">>}

\* a turn of the transcript without attachments (<<>>: the field is undefined); by:
\* the invocation of handleSendMessage that created it
Turn(role, content, r) ==
    [role |-> role, content |-> content, attachments |-> <<>>, by |-> r]

\* const messageAttachments = attachments.map(..)
MessageAttachments(atts) ==
    [k \in 1..Len(atts) |-> MessageAttachment(atts[k])]

\* userMessage: attachments is messageAttachments, or undefined when there is none
UserMessage(content, atts, r) ==
    [role |-> "user", content |-> content,
     attachments |-> MessageAttachments(atts), by |-> r]

\* mutant: the request carries the new turn alone
ApiMessages_LastOnly(msgs) == <<ApiMessage(msgs[Len(msgs)])>>

\* const apiMessages = updatedMessages.map((msg) => ..)
ApiMessages(msgs) == [i \in 1..Len(msgs) |-> ApiMessage(msgs[i])]

\* what the catch block of handleSendMessage can catch
AbortError == [name |-> "AbortError", message |-> <<"The user aborted a request.">>]
FetchFailed == [name |-> "TypeError", message |-> <<"Failed to fetch">>]
NetworkError == [name |-> "TypeError", message |-> <<"network error">>]
\* new Error(`HTTP error! status: ${response.status}`)
HttpError(status) == [name |-> "Error", message |-> <<"HTTP error! status: ", status>>]
\* the statuses of a response that is not ok: the relay's validation failures (the
\* client always sends a non-empty array, so only the missing credential remains)
NotOkStatuses == {"500"}

\* `Sorry, there was an error: ${message}. Please make sure the backend server is running.`
ErrorText(m) ==
    <<"Sorry, there was an error: ">> \o m
    \o <<". Please make sure the backend server is running.">>

\* suspended at an await: of the fetch, or of reader.read()
Alive(q) == q.pc \in {"fetching", "reading"}
InFlight(r) == Alive(reqs[r]) /\ ~reqs[r].aborted

\* mutant: the continuation of an aborted invocation is an event like any other
MicrotaskPending_Never == FALSE

\* An abort rejects the promise the invocation awaits (the fetch, or the read of
\* the body, which the abort errors) in the abort() call itself, so the
\* continuation of the aborted invocation is a microtask: it runs when the handler
\* that called abort() returns, before the next event (a click, a chunk arriving).
MicrotaskPending == \E r \in ReqIds : Alive(reqs[r]) /\ reqs[r].aborted

\* The records of the invocations that have returned keep only what later steps
\* can depend on: that they returned, whether they had been aborted and, if so,
\* what they had accumulated when they were.
Forget(rs) ==
    [r \in ReqIds |->
        IF rs[r].pc = "done"
        THEN [NoReq EXCEPT !.pc = "done", !.aborted = rs[r].aborted,
                           !.acc = IF rs[r].aborted THEN rs[r].acc ELSE EmptyText]
        ELSE rs[r]]

\* handleSendMessage(content, attachments), up to the await of the fetch
HandleSendMessage(content, atts) ==
    /\ nextReq \in ReqIds
    /\ messages' = Append(messages, UserMessage(content, atts, nextReq))
    /\ isLoading' = TRUE
    /\ streamingContent' = EmptyText
    /\ abortControllerRef' = nextReq
    /\ reqs' = [Forget(reqs) EXCEPT ![nextReq] =
                    [NoReq EXCEPT !.pc = "fetching",
                                  !.apiMessages = ApiMessages(messages')]]
    /\ nextReq' = nextReq + 1

\* ChatInput calls onSend unless it is disabled (disabled = isLoading)
SubmitInput(content, atts) ==
    /\ ~MicrotaskPending
    /\ ~isLoading
    /\ HandleSendMessage(content, atts)

\* a suggestion button, rendered while messages.length === 0 && !streamingContent
SuggestionClick(content) ==
    /\ ~MicrotaskPending
    /\ Len(messages) = 0
    /\ streamingContent = EmptyText
    /\ HandleSendMessage(content, <<>>)

\* mutant: the name is compared with a name no error has
IsAbortError_WrongName(e) == e.name = "AbortedError"

\* (error as Error).name === "AbortError"
IsAbortError(e) == e.name = "AbortError"

\* mutant: the finally block leaves the loading flag set
Finally_StillLoading(r) ==
    /\ isLoading' = isLoading
    /\ abortControllerRef' = 0

\* the finally block: setIsLoading(false); abortControllerRef.current = null
Finally(r) ==
    /\ isLoading' = FALSE
    /\ abortControllerRef' = 0

\* mutant: the catch block puts the error message in the place of the last turn
Catch_ReplacesLast(r, e) ==
    /\ IF IsAbortError(e)
       THEN /\ UNCHANGED <<messages, streamingContent>>
            /\ reqs' = [reqs EXCEPT ![r].pc = "done", ![r].apiMessages = <<>>]
       ELSE /\ messages' = [messages EXCEPT ![Len(messages)] =
                                Turn("assistant", ErrorText(e.message), r)]
            /\ streamingContent' = EmptyText
            /\ reqs' = [reqs EXCEPT ![r].pc = "done", ![r].apiMessages = <<>>,
                                    ![r].turns = Append(@, ErrorText(e.message))]
    /\ Finally(r)
    /\ UNCHANGED nextReq

\* mutant: the return of the AbortError branch leaves without the finally block
Catch_AbortSkipsFinally(r, e) ==
    /\ IF IsAbortError(e)
       THEN /\ UNCHANGED <<messages, streamingContent, isLoading, abortControllerRef>>
            /\ reqs' = [reqs EXCEPT ![r].pc = "done", ![r].apiMessages = <<>>]
       ELSE /\ messages' = Append(messages, Turn("assistant", ErrorText(e.message), r))
            /\ streamingContent' = EmptyText
            /\ reqs' = [reqs EXCEPT ![r].pc = "done", ![r].apiMessages = <<>>,
                                    ![r].turns = Append(@, ErrorText(e.message))]
            /\ Finally(r)
    /\ UNCHANGED nextReq

\* the catch block of handleSendMessage, then the finally block
Catch(r, e) ==
    /\ IF IsAbortError(e)
       THEN /\ UNCHANGED <<messages, streamingContent>>
            /\ reqs' = [reqs EXCEPT ![r].pc = "done", ![r].apiMessages = <<>>]
       ELSE /\ messages' = Append(messages, Turn("assistant", ErrorText(e.message), r))
            /\ streamingContent' = EmptyText
            /\ reqs' = [reqs EXCEPT ![r].pc = "done", ![r].apiMessages = <<>>,
                                    ![r].turns = Append(@, ErrorText(e.message))]
    /\ Finally(r)
    /\ UNCHANGED nextReq

\* the fetch resolves with a streaming response: the first reader.read() is awaited
FetchResolve(r, i) ==
    /\ ~MicrotaskPending
    /\ reqs[r].pc = "fetching"
    /\ reqs' = [reqs EXCEPT ![r].pc = "reading", ![r].script = i,
                            ![r].apiMessages = <<>>]
    /\ UNCHANGED <<messages, isLoading, streamingContent, abortControllerRef, nextReq>>

\* the fetch resolves with a response that is not ok: throw new Error(..)
FetchNotOk(r, status) ==
    /\ ~MicrotaskPending
    /\ reqs[r].pc = "fetching"
    /\ Catch(r, HttpError(status))

\* the fetch rejects: the backend cannot be reached
FetchReject(r) ==
    /\ ~MicrotaskPending
    /\ reqs[r].pc = "fetching"
    /\ Catch(r, FetchFailed)

\* reader.read() resolves with the next k bytes of the body: one iteration of the
\* read loop
ReadChunk(r, k) ==
    /\ ~MicrotaskPending
    /\ reqs[r].pc = "reading"
    /\ reqs[r].pos + k <= Len(Bodies[reqs[r].script])
    /\ LET q == reqs[r]
           d == OnEvents(Decoder(q.acc, streamingContent),
                         BodyChunkEvents[q.script][q.pos][k])
       IN  /\ messages' = messages \o [i \in 1..Len(d.turns) |->
                                          Turn("assistant", d.turns[i], r)]
           /\ streamingContent' = d.sc
           /\ reqs' = [reqs EXCEPT ![r].pos = q.pos + k,
                                   ![r].acc = d.acc,
                                   ![r].pubs = q.pubs \o d.pubs,
                                   ![r].turns = q.turns \o d.turns,
                                   ![r].errs = q.errs \o d.errs]
    /\ UNCHANGED <<isLoading, abortControllerRef, nextReq>>

\* reader.read() resolves with done: the loop ends, the finally block runs
ReadDone(r) ==
    /\ ~MicrotaskPending
    /\ reqs[r].pc = "reading"
    /\ reqs[r].pos = Len(Bodies[reqs[r].script])
    /\ reqs' = [reqs EXCEPT ![r].pc = "done", ![r].eof = TRUE]
    /\ Finally(r)
    /\ UNCHANGED <<messages, streamingContent, nextReq>>

\* reader.read() rejects: the connection broke
ReadReject(r) ==
    /\ ~MicrotaskPending
    /\ reqs[r].pc = "reading"
    /\ Catch(r, NetworkError)

\* the awaited promise of an aborted invocation rejects with an AbortError
AbortReject(r) ==
    /\ Alive(reqs[r])
    /\ reqs[r].aborted
    /\ Catch(r, AbortError)

\* mutant: handleNewChat without the abort() call
Abort_Missing(rs, ref) == rs

\* abortControllerRef.current.abort()
Abort(rs, ref) == IF ref # 0 THEN [rs EXCEPT ![ref].aborted = TRUE] ELSE rs

\* mutant: handleNewChat without setStreamingContent("")
HandleNewChat_KeepsContent ==
    /\ ~MicrotaskPending
    /\ reqs' = Abort(reqs, abortControllerRef)
    /\ messages' = <<>>
    /\ isLoading' = FALSE
    /\ UNCHANGED <<streamingContent, abortControllerRef, nextReq>>

\* handleNewChat
HandleNewChat ==
    /\ ~MicrotaskPending
    /\ reqs' = Abort(reqs, abortControllerRef)
    /\ messages' = <<>>
    /\ streamingContent' = EmptyText
    /\ isLoading' = FALSE
    /\ UNCHANGED <<abortControllerRef, nextReq>>

\* the server at rest, with a request the client's requests look like
InitRelayIdle ==
    /\ sreq = [endpoint |-> "stream", messages |-> ArrayOf(<<"turn">>), apiKey |-> TRUE,
               closed |-> FALSE]
    /\ InitRelay

Init ==
    /\ InitClient
    /\ InitRelayIdle
    /\ InitDecoder
    /\ InitInput
    /\ InitFormat
    /\ InitStorage

Next ==
    \/ \E c \in UserTexts : SubmitInput(c, <<>>) /\ UNCHANGED exceptClient
    \/ \E c \in UserTexts : SuggestionClick(c) /\ UNCHANGED exceptClient
    \/ \E r \in ReqIds, i \in ScriptIds : FetchResolve(r, i) /\ UNCHANGED exceptClient
    \/ \E r \in ReqIds, st \in NotOkStatuses : FetchNotOk(r, st) /\ UNCHANGED exceptClient
    \/ \E r \in ReqIds : FetchReject(r) /\ UNCHANGED exceptClient
    \/ \E r \in ReqIds, k \in 1..MaxBody : ReadChunk(r, k) /\ UNCHANGED exceptClient
    \/ \E r \in ReqIds : ReadDone(r) /\ UNCHANGED exceptClient
    \/ \E r \in ReqIds : ReadReject(r) /\ UNCHANGED exceptClient
    \/ \E r \in ReqIds : AbortReject(r) /\ UNCHANGED exceptClient
    \/ HandleNewChat /\ UNCHANGED exceptClient

Spec == Init /\ [][Next]_vars

---------------------------------------------------------------------------
(* SpecRelay: the server handling one request *)

InitRelaySpec ==
    /\ sreq \in [endpoint : Endpoints, messages : MessagesInputs, apiKey : BOOLEAN,
                 closed : {FALSE}]
    /\ InitRelay
    /\ InitClient
    /\ InitDecoder
    /\ InitInput
    /\ InitFormat
    /\ InitStorage

NextRelaySpec ==
    \/ StreamReceive /\ UNCHANGED exceptRelay
    \/ CreateResolve /\ UNCHANGED exceptRelay
    \/ \E e \in Errors : CreateReject(e) /\ UNCHANGED exceptRelay
    \/ \E c \in Chunks : UpstreamChunk(c) /\ UNCHANGED exceptRelay
    \/ UpstreamEnd /\ UNCHANGED exceptRelay
    \/ \E e \in Errors : UpstreamThrow(e) /\ UNCHANGED exceptRelay
    \/ ClientDisconnect /\ UNCHANGED exceptRelay
    \/ ChatReceive /\ UNCHANGED exceptRelay
    \/ \E c \in Fragments : ChatResolve(c) /\ UNCHANGED exceptRelay
    \/ \E e \in Errors : ChatReject(e) /\ UNCHANGED exceptRelay

SpecRelay == InitRelaySpec /\ [][NextRelaySpec]_vars

\* the request passed validation and the streaming response is committed
Streaming == sreq.endpoint = "stream" /\ resHeaders

TerminalCount(fs) == Cardinality({i \in 1..Len(fs) : IsTerminal(fs[i])})
ContentTexts(fs) ==
    LET cs == SelectSeq(fs, LAMBDA f : f.type = "content")
    IN  [i \in 1..Len(cs) |-> cs[i].text]
\* no frame follows a terminal frame
NothingAfterTerminal(fs) == \A i \in 1..Len(fs) : IsTerminal(fs[i]) => i = Len(fs)

\* C1: for a validated streaming request and every upstream behaviour, the frames
\* written are content frames followed by exactly one terminal frame (done or
\* error): no frame follows a terminal frame, and once the response has ended there
\* is exactly one terminal frame.
C1_ExactlyOneTerminal ==
    Streaming =>
        /\ NothingAfterTerminal(resFrames)
        /\ resEnded => TerminalCount(resFrames) = 1

\* the text fragments the upstream has emitted: every delta.content that is a string
EmittedFragments(cs) ==
    LET fs == SelectSeq(cs, LAMBDA c : c.content # Absent)
    IN  [i \in 1..Len(fs) |-> fs[i].content]
NonEmptyFragments(cs) == SelectSeq(EmittedFragments(cs), LAMBDA t : t # EmptyText)

\* C8 as stated: the content frames written are, one for one and in order, the
\* text fragments the upstream has emitted.
C8_OneFramePerFragment ==
    Streaming => ContentTexts(resFrames) = EmittedFragments(consumed)

\* C8 as amended: the content frames written are, one for one and in order, the
\* non-empty text fragments the upstream has emitted (a chunk whose delta.content
\* is empty or absent writes no content frame).
C8_OneFramePerNonEmptyFragment ==
    Streaming => ContentTexts(resFrames) = NonEmptyFragments(consumed)

C8_Witness ==
    /\ Streaming
    /\ EmittedFragments(consumed) = <<He, Llo>>
    /\ resFrames = <<ContentFrame(He), ContentFrame(Llo)>>

\* C9: on both POST endpoints a request whose messages are missing, no array or
\* empty is answered at once with a 400 and a JSON error body, and otherwise one
\* without the upstream credential with a 500 and a JSON error body; in these
\* cases no streaming header is set, no frame is written and no upstream call made.
C9_ValidationRejects ==
    LET bad == sreq.messages.kind # "array" \/ sreq.messages.elems = <<>>
        rejected == bad \/ ~sreq.apiKey
    IN  (spc # "received" /\ rejected) =>
            /\ spc = "closed"
            /\ resEnded
            /\ resStatus = (IF bad THEN 400 ELSE 500)
            /\ resJson = ErrorBody(IF bad THEN MessagesRequired ELSE KeyNotConfigured)
            /\ ~resHeaders
            /\ resFrames = <<>>
            /\ lateWrites = 0
            /\ upstreamCalls = 0

C9_Witness ==
    /\ spc = "closed"
    /\ sreq.messages = ArrayOf(<<>>)
    /\ ~sreq.apiKey
    /\ resStatus = 400

ErrorFrames(fs) == SelectSeq(fs, LAMBDA f : f.type = "error")

\* C10: once the streaming response is committed, a failure of the upstream call
\* or of the upstream stream writes exactly one error frame, carrying the error's
\* message ('Unknown error' when what was thrown is no Error), as the last frame,
\* and ends the response; no error frame is written otherwise, and the HTTP status
\* is never set.
C10_FailureInBand ==
    Streaming =>
        /\ resStatus = 0
        /\ resJson = NoBody
        /\ IF caught = NoError
           THEN ErrorFrames(resFrames) = <<>>
           ELSE /\ ErrorFrames(resFrames) = <<ErrorFrame(ErrorMessageOf(caught))>>
                /\ resFrames[Len(resFrames)] = ErrorFrame(ErrorMessageOf(caught))
                /\ resEnded
                /\ spc = "closed"
                /\ lateWrites = 0

C10_Witness ==
    /\ Streaming
    /\ caught = [isError |-> TRUE, message |-> Boom]
    /\ resFrames = <<ContentFrame(He), ErrorFrame(Boom)>>
    /\ resEnded

\* The frames the relay has written are those RelayOutput computes from what the
\* upstream has done so far (the bodies the client reads are built with RelayOutput).
RelayOutputAgrees ==
    (Streaming /\ ~FormatThrows(sreq.messages)) =>
        resFrames = RelayOutput([create |-> NoError, chunks |-> consumed,
                                 ending |-> caught])

\* C30: once the request has ended (normal completion, upstream error) or the
\* client has closed the connection while the relay iterates the upstream stream,
\* no step consumes a chunk of the upstream stream or writes a frame.
C30_ReleasedStep ==
    (spc = "closed" \/ (sreq.closed /\ spc = "iterating")) =>
        /\ consumed' = consumed
        /\ resFrames' = resFrames
        /\ lateWrites' = lateWrites
C30_UpstreamReleased == [][C30_ReleasedStep]_vars

---------------------------------------------------------------------------
(* Spec: the properties of the client *)

\* the invocation has returned after reading its response stream to the end
ReadToEnd(r) == reqs[r].pc = "done" /\ reqs[r].eof

\* decoding the whole body delivered as one chunk
OneShot(body) == ProcessChunk(Decoder(EmptyText, EmptyText), body)

\* C2: decoding a body cut into chunks at arbitrary offsets commits the same
\* assistant turns and publishes the same sequence of accumulator values as
\* decoding it delivered as one chunk.
C2_SplitEqualsOneShot ==
    \A r \in ReqIds :
        ReadToEnd(r) =>
            /\ reqs[r].turns = OneShot(Bodies[reqs[r].script]).turns
            /\ reqs[r].pubs = OneShot(Bodies[reqs[r].script]).pubs

\* C3: once a request has been cancelled, no step of it changes the transcript or
\* the published accumulator (no content, no committed turn, no error turn), and
\* no turn created by a cancelled request is in the transcript.
C3_NoTurnOfCancelled ==
    \A i \in 1..Len(messages) : ~reqs[messages[i].by].aborted
C3_CancelledIsSilent ==
    \A r \in ReqIds :
        reqs[r].aborted =>
            /\ Alive(reqs[r]) => messages' = messages /\ streamingContent' = streamingContent
            /\ reqs'[r].pos <= reqs[r].pos
            /\ Len(reqs'[r].pubs) <= Len(reqs[r].pubs)
            /\ Len(reqs'[r].turns) <= Len(reqs[r].turns)
\* C3 (both parts): always no turn of a cancelled request is in the transcript,
\* and every step leaves a cancelled request silent.
C3_CancelledStreamIsDiscarded ==
    [](C3_NoTurnOfCancelled) /\ [][C3_CancelledIsSilent]_vars

\* a request cancelled after it had published "He", and then a new request that
\* ran to completion: the transcript holds the new request's turns only
C3_Witness ==
    \E r1, r2 \in ReqIds :
        /\ r1 < r2
        /\ reqs[r1].aborted /\ reqs[r1].pc = "done" /\ reqs[r1].acc = He
        /\ ReadToEnd(r2)
        /\ messages = <<Turn("user", <<"h", "i">>, r2), Turn("assistant", He \o Llo, r2)>>

\* C4: at most one request that has not been cancelled is in flight; when
\* handleSendMessage issues a request no other request is in flight, and after
\* handleNewChat none is.
AtMostOneInFlight == Cardinality({r \in ReqIds : InFlight(r)}) <= 1
C4_IssuedAfterCancel ==
    /\ nextReq' # nextReq => \A r \in ReqIds : ~InFlight(r)
    /\ HandleNewChat => \A r \in ReqIds : ~InFlight(r)'
\* C4 (both parts): always at most one uncancelled request is in flight, and every
\* step that issues a request or starts a new chat has the outstanding one cancelled.
C4_SingleInFlight ==
    [](AtMostOneInFlight) /\ [][C4_IssuedAfterCancel]_vars

C4_Witness ==
    /\ reqs[1].aborted /\ reqs[1].pc = "done"
    /\ InFlight(2)
    /\ abortControllerRef = 2
    /\ isLoading

\* C5: when a request that was not cancelled has parsed an error frame carrying m,
\* exactly one assistant turn explaining the failure with m has been appended by
\* the time it returns.
C5_ErrorFrameSurfaced ==
    \A r \in ReqIds :
        (ReadToEnd(r) /\ ~reqs[r].aborted /\ reqs[r].errs # <<>>) =>
            Cardinality({i \in 1..Len(reqs[r].turns) :
                            reqs[r].turns[i] = ErrorText(reqs[r].errs[1])}) = 1

\* C6: once a request that parsed an error frame has returned (and nothing has
\* been sent since), the published accumulator is empty.
C6_ErrorClearsAccumulator ==
    \A r \in ReqIds :
        (ReadToEnd(r) /\ ~reqs[r].aborted /\ reqs[r].errs # <<>>
            /\ nextReq = r + 1) =>
            streamingContent = EmptyText

\* the accumulator path of fragments f1..fn: f1, f1f2, .., f1..fn
Prefixes(fs) == [i \in 1..Len(fs) |-> Flatten(SubSeq(fs, 1, i))]
\* the upstream emits content fragments and then reports completion
Completes(u) ==
    /\ u.create = NoError /\ u.ending = NoError
    /\ \E i \in 1..Len(u.chunks) : u.chunks[i].finish = "stop"

\* C7: end to end, for an upstream that emits fragments f1..fn and then completes,
\* the request publishes f1, f1f2, .., f1..fn in that order and commits exactly one
\* assistant turn, the concatenation f1..fn.
C7_EndToEnd ==
    \A r \in ReqIds :
        (ReadToEnd(r) /\ Completes(UpstreamScripts[reqs[r].script])) =>
            LET fs == EmittedFragments(UpstreamScripts[reqs[r].script].chunks)
            IN  /\ reqs[r].pubs = Prefixes(fs)
                /\ reqs[r].turns = <<Flatten(fs)>>

---------------------------------------------------------------------------
(* SpecDecoder: the stream decoder working through the lines of one response *)

InitDecoderSpec ==
    /\ streamLines \in LineSeqs
    /\ lineIdx = 0
    /\ dec = Decoder(EmptyText, EmptyText)
    /\ InitRelayIdle
    /\ InitClient
    /\ InitInput
    /\ InitFormat
    /\ InitStorage

NextDecoderSpec == DecodeLine /\ UNCHANGED exceptDecoder

SpecDecoder == InitDecoderSpec /\ [][NextDecoderSpec]_vars

\* the lines worked through so far, and the frames among them
Processed == SubSeq(streamLines, 1, lineIdx)
FramesOf(ls) ==
    LET good == SelectSeq(ls, LAMBDA l : l \in GoodLines)
    IN  [i \in 1..Len(good) |-> LineEvent(good[i])]

\* the turns committed and the accumulator left by a sequence of content and
\* done frames, when done commits the accumulator and clears it
RECURSIVE Committed(_, _)
Committed(fs, acc) ==
    IF fs = <<>> THEN [turns |-> <<>>, acc |-> acc]
    ELSE IF Head(fs).type = "done"
         THEN LET rest == Committed(Tail(fs), EmptyText)
              IN  [rest EXCEPT !.turns = <<acc>> \o rest.turns]
         ELSE Committed(Tail(fs), acc \o Head(fs).text)

\* C11: in a stream of content and done frames every done frame appends one
\* assistant turn holding the text accumulated since the previous done frame and
\* clears the accumulator: the turns committed and the accumulator published are
\* those of a decoder that starts from the empty text after each done.
C11_DoneCommitsAndClears ==
    LET fs == FramesOf(Processed)
    IN  (\A i \in 1..Len(fs) : fs[i].type # "error") =>
            /\ dec.turns = Committed(fs, EmptyText).turns
            /\ dec.sc = Committed(fs, EmptyText).acc

\* C12: a line that is no frame is skipped: the step that works through it
\* changes neither the accumulator nor the transcript nor anything else of the
\* decoder, the loop goes on to the next line, and what the decoder holds is what
\* the frames alone, without the bad lines, produce.
C12_BadLineStep ==
    (lineIdx' = lineIdx + 1 /\ streamLines[lineIdx + 1] \in BadLines) => dec' = dec
C12_AsIfAbsent ==
    dec = OnEvents(Decoder(EmptyText, EmptyText), FramesOf(Processed))
C27_AssistantTurnsNonEmpty ==
    \A i \in 1..Len(dec.turns) : dec.turns[i] # EmptyText

---------------------------------------------------------------------------
(* SpecInput: ChatInput with one batch of files *)

NextInputSpec ==
    \/ \E fs \in FileLists : HandleFileSelect(fs) /\ UNCHANGED exceptInput
    \/ \E i \in 1..MaxFiles : ReaderLoad(i) /\ UNCHANGED exceptInput
    \/ PdfResolve /\ UNCHANGED exceptInput
    \/ PdfReject /\ UNCHANGED exceptInput
    \/ \E id \in 1..MaxFiles : RemoveAttachment(id) /\ UNCHANGED exceptInput
    \/ \E v \in Inputs : SetInput(v) /\ UNCHANGED exceptInput
    \/ HandleSubmit /\ UNCHANGED exceptInput
    \/ RequestEnds /\ UNCHANGED exceptInput

SpecInput == Init /\ [][NextInputSpec]_vars

\* a read or a PDF conversion of the batch is outstanding
Outstanding == readers # {} \/ fsel # 0
\* the batch has been selected and nothing of it is outstanding
Settled == files # <<>> /\ ~Outstanding
Range(s) == {s[k] : k \in 1..Len(s)}
\* the files an alert was shown for, and those whose alert says what
Warned == {w.file : w \in warned}
WarnedOf(what) == {w.file : w \in {v \in warned : v.alert = what}}

\* C13: while a read or a conversion of the batch is outstanding isProcessing is
\* true and no step calls onSend.
C13_NoSendStep == Outstanding => sends' = sends
C13_BusyWhileOutstanding ==
    [](Outstanding => isProcessing) /\ [][C13_NoSendStep]_vars

\* C14: a call of handleSubmit made while the trimmed text is empty and there is
\* no attachment, or while the input is disabled, calls onSend not and leaves the
\* text and the attachments as they are.
C14_BlockedStep ==
    LET blocked == (Trim(input) = EmptyText /\ attachments = <<>>) \/ disabled
    IN  (submits' # submits /\ blocked) =>
            /\ sends' = sends
            /\ lastSent' = lastSent
            /\ input' = input
            /\ attachments' = attachments
C14_BlockedSubmitDoesNothing == [][C14_BlockedStep]_vars

\* after one message was sent, a second call of handleSubmit, made while the
\* input was disabled and an attachment was pending, sent nothing
C14_Witness ==
    /\ submits = 2 /\ sends = 1
    /\ disabled
    /\ attachments # <<>>

\* the files of the batch that pass the size check and the type check
PassesChecks(file) ==
    /\ file.size <= 20 * 1024 * 1024
    /\ \/ file.type \in {"image/jpeg", "image/png", "image/gif", "image/webp"}
       \/ file.type \in {"text/plain", "text/markdown", "application/json", "text/csv"}
       \/ HasSuffix(file.name, <<".", "t", "x", "t">>)
       \/ HasSuffix(file.name, <<".", "m", "d">>)
       \/ file.type = "application/pdf"
       \/ HasSuffix(file.name, <<".", "p", "d", "f">>)
Passing == {i \in 1..Len(files) : PassesChecks(files[i])}
NoDuplicates(s) == \A j, k \in 1..Len(s) : s[j] = s[k] => j = k

\* C15 as stated: once nothing of the batch is outstanding, the files added are
\* exactly those that pass the size check and the type check.
C15_AddedArePassing ==
    Settled => Range(added) = Passing /\ NoDuplicates(added)

\* C15 as amended: a file that does not pass the checks is never added, and once
\* nothing of the batch is outstanding the files added are exactly those that
\* pass the checks, except the PDFs whose conversion failed.
C15_AddedArePassingAndConverted ==
    /\ Range(added) \subseteq Passing
    /\ NoDuplicates(added)
    /\ Settled => Range(added) = Passing \ WarnedOf(PdfFailedAlert)

\* a file too large, then a PDF of exactly the maximum size: the PDF is added
C15_Witness ==
    /\ Settled
    /\ files = <<Huge, BigPdf>>
    /\ added = <<2>>
    /\ warned = {Alert(1, TooLargeAlert)}

\* the step in which the conversion of the awaited PDF fails
PdfFailureStep == fsel # 0 /\ Alert(fsel, PdfFailedAlert) \in warned'

\* C16: the step in which the conversion of a PDF fails adds no attachment and
\* keeps those there are, and every other file of the batch is still dealt with:
\* when handleFileSelect has returned, each file has been reported, or is being
\* read, or has been added.
C16_FailureStep ==
    PdfFailureStep =>
        /\ attachments' = attachments
        /\ added' = added
        /\ fsel \notin Range(added')
C16_AllDealtWith ==
    (files # <<>> /\ fsel = 0) =>
        \A i \in 1..Len(files) : i \in Warned \/ i \in readers \/ i \in Range(added)
C16_PdfFailureIsPerFile == [](C16_AllDealtWith) /\ [][C16_FailureStep]_vars

\* a PDF whose conversion failed, then an image: the image is added
C16_Witness ==
    /\ Settled
    /\ files = <<Pdf2, Png>>
    /\ warned = {Alert(1, PdfFailedAlert)}
    /\ added = <<2>>
    /\ Len(attachments) = 1 /\ attachments[1].id = 2

Transmitted == ApiAttachmentsOf(lastSent.attachments)
PayloadPresent(att) ==
    CASE att.type = "image" -> att.base64 # Absent /\ att.base64 # EmptyText
      [] att.type = "text" -> att.preview # Absent
      [] OTHER -> /\ att.pageImages # Absent /\ Len(att.pageImages) >= 1
                  /\ att.preview # Absent

C19_OneFileAtATime ==
    Cardinality(readers) + (IF fsel # 0 THEN 1 ELSE 0) <= 1

\* C20: the PDFs among the pending attachments, and among the files added, are in
\* the order of their selection.
C20_PdfsInSelectionOrder ==
    /\ \A j, k \in 1..Len(attachments) :
          (j < k /\ attachments[j].type = "pdf" /\ attachments[k].type = "pdf") =>
              attachments[j].id < attachments[k].id
    /\ \A j, k \in 1..Len(added) :
          (j < k /\ IsPdf(files[added[j]]) /\ IsPdf(files[added[k]])) =>
              added[j] < added[k]

\* an image and then a text file were selected, and the text file was read first:
\* the pending attachments are not in the order of selection
C20_Witness ==
    /\ Settled
    /\ files = <<Png, Txt>>
    /\ added = <<2, 1>>
    /\ Len(attachments) = 2
    /\ attachments[1].id = 2 /\ attachments[2].id = 1

---------------------------------------------------------------------------
(* SpecFormat: formatMessagesForOpenAI working through the turns of one request *)

InitFormatSpec ==
    /\ reqMessages \in Conversations
    /\ msgIdx = 0
    /\ formattedMessages = InitialMessages
    /\ InitRelayIdle
    /\ InitClient
    /\ InitDecoder
    /\ InitInput
    /\ InitStorage

NextFormatSpec == FormatNext /\ UNCHANGED exceptFormat

SpecFormat == InitFormatSpec /\ [][NextFormatSpec]_vars

\* the turns the loop has formatted
Formatted == 1..msgIdx
\* the loop has formatted every turn: the function returns formattedMessages
Returned == msgIdx = Len(reqMessages)
\* the typed text of a turn as the trailing part
TrailingText(text) == IF text = EmptyText THEN <<>> ELSE <<[type |-> "text", text |-> text]>>
IsImagePartOf(part, url) ==
    /\ part.type = "image_url"
    /\ part.image_url = [url |-> url, detail |-> "auto"]
IsTextPartOf(part, text) ==
    /\ part.type = "text"
    /\ part.text = text

\* C21: after i turns the result holds i + 1 messages, the first is the fixed
\* system message, and message i + 1 has the role and the text of turn i; at the
\* return a conversation of n turns has given n + 1 messages.
C21_SystemThenTurnsInOrder ==
    /\ Len(formattedMessages) = msgIdx + 1
    /\ formattedMessages[1].role = "system"
    /\ formattedMessages[1].content = [kind |-> "string", text |-> SYSTEM_PROMPT, parts |-> <<>>]
    /\ \A i \in Formatted :
        LET msg == reqMessages[i]
            out == formattedMessages[i + 1]
        IN  /\ out.role = msg.role
            /\ \/ out.content.kind = "string" /\ out.content.text = msg.content
               \/ /\ out.content.kind = "parts"
                  /\ msg.attachments # <<>>
                  /\ \A k \in 1..Len(msg.attachments) :
                        \/ IsImagePartOf(out.content.parts[k], msg.attachments[k].data)
                        \/ out.content.parts[k].type = "text"
                  /\ SubSeq(out.content.parts, Len(msg.attachments) + 1, Len(out.content.parts))
                        = TrailingText(msg.content)
    /\ Returned => Len(formattedMessages) = Len(reqMessages) + 1
C21_Witness ==
    /\ Returned
    /\ Len(reqMessages) = MaxTurns
    /\ reqMessages[1].role = "user"
    /\ reqMessages[2].role = "assistant"
    /\ Len(formattedMessages) = MaxTurns + 1

\* C22: a user turn with attachments (each an image or a text file) gives one
\* message of parts: one part per attachment in the order of the attachments, an
\* image part with the data of the attachment for an image, and then the typed
\* text as the last part exactly when it is not empty.
C22_AttachmentsThenText ==
    \A i \in Formatted :
        LET msg == reqMessages[i]
            out == formattedMessages[i + 1]
            n == Len(msg.attachments)
        IN  (msg.role = "user" /\ n > 0) =>
                /\ out.role = "user"
                /\ out.content.kind = "parts"
                /\ Len(out.content.parts) = n + (IF msg.content = EmptyText THEN 0 ELSE 1)
                /\ \A k \in 1..n :
                    /\ msg.attachments[k].type = "image" =>
                          IsImagePartOf(out.content.parts[k], msg.attachments[k].data)
                    /\ msg.attachments[k].type = "text" =>
                          out.content.parts[k].type = "text"
                /\ msg.content # EmptyText =>
                      IsTextPartOf(out.content.parts[n + 1], msg.content)
C22_Witness ==
    /\ Returned
    /\ Len(reqMessages) = 2
    /\ reqMessages[1] = [role |-> "user", content |-> EmptyText,
                         attachments |-> <<[type |-> "image", data |-> DataURL(Png),
                                            name |-> Png.name]>>]
    /\ Len(formattedMessages[2].content.parts) = 1
    /\ reqMessages[2] = [role |-> "user", content |-> Hi,
                         attachments |-> <<[type |-> "image", data |-> DataURL(Png),
                                            name |-> Png.name]>>]
    /\ Len(formattedMessages[3].content.parts) = 2
    /\ formattedMessages[3].content.parts[1].type = "image_url"
    /\ formattedMessages[3].content.parts[2].type = "text"

\* C23: a user turn of the client whose first attachment is a PDF with the page
\* images P goes on the wire with Len(P) attachments of type 'image' carrying
\* P[1], P[2], .. and is formatted into the image parts of P[1], P[2], .. in that
\* order; when the PDF is the only attachment nothing else is on the wire and the
\* parts are followed by the typed text alone, if it is not empty.  No attachment
\* on the wire from the client has a type other than 'image' and 'text'.
C23_PdfPagesInOrder ==
    \A t \in ClientTurns :
        LET w == ApiMessage(t).attachments
        IN  /\ \A k \in 1..Len(w) : w[k].type \in {"image", "text"}
            /\ (t.attachments # <<>> /\ t.attachments[1].type = "pdf") =>
                LET P == t.attachments[1].pageImages
                IN  /\ Len(w) >= Len(P)
                    /\ \A k \in 1..Len(P) : w[k].type = "image" /\ w[k].data = P[k]
                    /\ Len(t.attachments) = 1 => Len(w) = Len(P)
                    /\ \A i \in Formatted :
                        reqMessages[i] = ApiMessage(t) =>
                            LET parts == formattedMessages[i + 1].content.parts
                            IN  /\ Len(parts) >= Len(P)
                                /\ \A k \in 1..Len(P) : IsImagePartOf(parts[k], P[k])
                                /\ Len(t.attachments) = 1 =>
                                      SubSeq(parts, Len(P) + 1, Len(parts))
                                          = TrailingText(t.content)
C23_Witness ==
    /\ Returned
    /\ Len(reqMessages) = 1
    /\ reqMessages[1].content = Hi
    /\ Len(reqMessages[1].attachments) = Pdf2.pages
    /\ reqMessages[1].attachments[1].name = Pdf2.name \o <<" (page ", "1", ")">>
    /\ reqMessages[1].attachments[2].name = Pdf2.name \o <<" (page ", "2", ")">>
    /\ Len(formattedMessages[2].content.parts) = Pdf2.pages + 1
    /\ formattedMessages[2].content.parts[1].type = "image_url"
    /\ formattedMessages[2].content.parts[2].type = "image_url"
    /\ formattedMessages[2].content.parts[3].type = "text"

\* C24: the part at the place of a text attachment of a user turn is a text part
\* whose text is "[File: ", the name of the attachment, "]", a newline and then
\* the data of the attachment.
C24_TextAttachmentLabelled ==
    \A i \in Formatted :
        LET msg == reqMessages[i]
            out == formattedMessages[i + 1]
        IN  (msg.role = "user" /\ msg.attachments # <<>>) =>
                \A k \in 1..Len(msg.attachments) :
                    msg.attachments[k].type = "text" =>
                        /\ k <= Len(out.content.parts)
                        /\ IsTextPartOf(out.content.parts[k],
                                <<"[", "F", "i", "l", "e", ":", " ">>
                                    \o msg.attachments[k].name \o <<"]">>
                                    \o <<"\n">> \o msg.attachments[k].data)
C24_Witness ==
    /\ msgIdx >= 1
    /\ reqMessages[1].role = "user"
    /\ Len(reqMessages[1].attachments) = 2
    /\ reqMessages[1].attachments[1].type = "text"
    /\ reqMessages[1].attachments[1].data = TextOf(Txt)
    /\ formattedMessages[2].content.parts[1].type = "text"
    /\ Len(formattedMessages[2].content.parts[1].text) > Len(TextOf(Txt))

\* C25: an assistant turn, with attachments or without, and a user turn without
\* attachments each give one message of the same role whose content is the string
\* of the turn.
C25_TextOnlyTurns ==
    \A i \in Formatted :
        LET msg == reqMessages[i]
            out == formattedMessages[i + 1]
        IN  (msg.role = "assistant" \/ (msg.role = "user" /\ msg.attachments = <<>>)) =>
                /\ out.role = msg.role
                /\ out.content.kind = "string"
                /\ out.content.text = msg.content
                /\ out.content.parts = <<>>
C25_Witness ==
    /\ Returned
    /\ Len(reqMessages) = 2
    /\ reqMessages[1].role = "assistant"
    /\ reqMessages[1].attachments # <<>>
    /\ formattedMessages[2].content.kind = "string"
    /\ reqMessages[2].role = "user"
    /\ reqMessages[2].attachments = <<>>
    /\ formattedMessages[3].content.text = Hi

\* C36: for a user turn of the client that handleSubmit lets through (its text is
\* not empty or it has an attachment), the message formatted for it has at least
\* one part, or a text that is not empty.
C36_TurnTransmitsSomething ==
    \A i \in Formatted :
        \A t \in ClientTurns :
            (/\ reqMessages[i] = ApiMessage(t)
             /\ t.role = "user"
             /\ (t.content # EmptyText \/ Len(t.attachments) > 0)) =>
                LET out == formattedMessages[i + 1].content
                IN  \/ out.kind = "parts" /\ out.parts # <<>>
                    \/ out.kind = "string" /\ out.text # EmptyText

---------------------------------------------------------------------------
(* SpecTurns: the transcript and the requests of the client, with attachments *)
(* on the user turns and every response body read in one chunk              *)

\* what ChatInput passes to onSend with the text
UserAttachments ==
    {<<>>, <<ImageAttachment(1, Png)>>, <<TextAttachment(1, Txt), ImageAttachment(2, Png)>>}

NextTurnsSpec ==
    \/ \E c \in UserTexts, a \in UserAttachments : SubmitInput(c, a) /\ UNCHANGED exceptClient
    \/ \E c \in UserTexts : SuggestionClick(c) /\ UNCHANGED exceptClient
    \/ \E r \in ReqIds, i \in ScriptIds : FetchResolve(r, i) /\ UNCHANGED exceptClient
    \/ \E r \in ReqIds, st \in NotOkStatuses : FetchNotOk(r, st) /\ UNCHANGED exceptClient
    \/ \E r \in ReqIds : FetchReject(r) /\ UNCHANGED exceptClient
    \/ \E r \in ReqIds, k \in 1..MaxBody :
          /\ reqs[r].pc = "reading"
          /\ reqs[r].pos = 0
          /\ k = Len(Bodies[reqs[r].script])
          /\ ReadChunk(r, k)
          /\ UNCHANGED exceptClient
    \/ \E r \in ReqIds : ReadDone(r) /\ UNCHANGED exceptClient
    \/ \E r \in ReqIds : ReadReject(r) /\ UNCHANGED exceptClient
    \/ \E r \in ReqIds : AbortReject(r) /\ UNCHANGED exceptClient
    \/ HandleNewChat /\ UNCHANGED exceptClient

SpecTurns == Init /\ [][NextTurnsSpec]_vars

\* the step is a call of handleSendMessage: it takes the next request
Submits == nextReq' = nextReq + 1
\* the attachments of a turn, none of them a PDF, as a request carries them
OnWire(atts) ==
    [k \in 1..Len(atts) |->
        [type |-> atts[k].type, data |-> atts[k].preview, name |-> atts[k].name]]
\* turn msg as a request carries it
Carries(m, msg) ==
    /\ m.role = msg.role
    /\ m.content = msg.content
    /\ m.attachments = OnWire(msg.attachments)

\* C26: the request of a call of handleSendMessage carries every turn of the
\* transcript at the call, in order and with its attachments, and then the new
\* user turn, which is the turn the call appends to the transcript; on an empty
\* transcript (at the start, after handleNewChat) it carries the new turn alone.
C26_SubmitStep ==
    Submits =>
        LET body == reqs'[nextReq].apiMessages
            n == Len(messages)
        IN  /\ reqs'[nextReq].pc = "fetching"
            /\ Len(body) = n + 1
            /\ \A i \in 1..n : Carries(body[i], messages[i])
            /\ Len(messages') = n + 1
            /\ messages'[n + 1].role = "user"
            /\ Carries(body[n + 1], messages'[n + 1])
C26_RequestCarriesHistory == [][C26_SubmitStep]_vars
C26_Witness ==
    /\ reqs[2].pc = "fetching"
    /\ Len(reqs[2].apiMessages) = 3
    /\ reqs[2].apiMessages[1].role = "user"
    /\ Len(reqs[2].apiMessages[1].attachments) = 2
    /\ reqs[2].apiMessages[2].role = "assistant"
    /\ reqs[2].apiMessages[3].role = "user"
    /\ Len(reqs[2].apiMessages[3].attachments) = 1

\* C28: a step that is not handleNewChat keeps every turn of the transcript at
\* its place and appends, if anything, either the one user turn of a call of
\* handleSendMessage or assistant turns.
C28_AppendOnlyStep ==
    \/ HandleNewChat
    \/ /\ Len(messages') >= Len(messages)
       /\ SubSeq(messages', 1, Len(messages)) = messages
       /\ LET new == SubSeq(messages', Len(messages) + 1, Len(messages'))
          IN  \/ Submits /\ Len(new) = 1 /\ new[1].role = "user"
              \/ ~Submits /\ \A i \in 1..Len(new) : new[i].role = "assistant"
C28_TurnsImmutable == [][C28_AppendOnlyStep]_vars
C28_Witness ==
    /\ Len(messages) = 4
    /\ messages[1].role = "user"
    /\ messages[1].attachments # <<>>
    /\ messages[2].role = "assistant"
    /\ messages[2].content = Hello
    /\ messages[3].role = "user"
    /\ messages[4].role = "assistant"
    /\ messages[4].content = ErrorText(FetchFailed.message)

\* C29: when the fetch of a request that has not been cancelled fails (it
\* rejects, or its response is not ok), the step appends exactly one assistant
\* turn, whose text reports the error, empties the streaming content, resets the
\* loading flag and starts no request.
C29_FailureStep ==
    \A r \in ReqIds :
        (reqs[r].pc = "fetching" /\ ~reqs[r].aborted /\ reqs'[r].pc = "done") =>
            /\ Len(messages') = Len(messages) + 1
            /\ SubSeq(messages', 1, Len(messages)) = messages
            /\ messages'[Len(messages')].role = "assistant"
            /\ messages'[Len(messages')].content \in
                  {<<"Sorry, there was an error: ", m,
                     ". Please make sure the backend server is running.">> :
                        m \in {"Failed to fetch"}}
                  \cup
                  {<<"Sorry, there was an error: ", "HTTP error! status: ", st,
                     ". Please make sure the backend server is running.">> :
                        st \in NotOkStatuses}
            /\ streamingContent' = EmptyText
            /\ isLoading' = FALSE
            /\ nextReq' = nextReq
            /\ \A q \in ReqIds : reqs'[q].pc = "fetching" => reqs[q].pc = "fetching" /\ q # r
C29_FailureSurfacedOnce == [][C29_FailureStep]_vars
C29_Witness ==
    /\ reqs[1].pc = "done"
    /\ ~reqs[1].aborted
    /\ reqs[1].script = 0
    /\ reqs[1].turns = <<ErrorText(<<"HTTP error! status: ", "500">>)>>
    /\ Len(messages) = 2
    /\ messages[2].role = "assistant"
    /\ messages[2].content = ErrorText(<<"HTTP error! status: ", "500">>)
    /\ streamingContent = EmptyText
    /\ ~isLoading
    /\ nextReq = 2

\* C31: a request that is in flight and has not been cancelled has the loading
\* flag set and its own controller in abortControllerRef, also after the finally
\* block of an earlier, cancelled request has run; and handleNewChat cancels
\* every request in flight.
C31_InFlightHoldsController ==
    \A r \in ReqIds : InFlight(r) => isLoading /\ abortControllerRef = r
C31_NewChatCancelsStep ==
    HandleNewChat => \A r \in ReqIds : InFlight(r) => reqs'[r].aborted
C31_InFlightIsCancellable ==
    [](C31_InFlightHoldsController) /\ [][C31_NewChatCancelsStep]_vars
C31_Witness ==
    /\ reqs[1].aborted
    /\ reqs[1].pc = "done"
    /\ reqs[2].pc = "reading"
    /\ ~reqs[2].aborted
    /\ abortControllerRef = 2
    /\ isLoading
    /\ Len(messages) = 1

\* C32: a request that read its response stream to the end without being
\* cancelled has appended exactly one assistant turn.
C32_OneTurnPerRequest ==
    \A r \in ReqIds :
        (ReadToEnd(r) /\ ~reqs[r].aborted) => Len(reqs[r].turns) = 1

\* C35: whenever the loading flag is not set, the streaming content is empty.
C35_IdleMeansNoPartial == ~isLoading => streamingContent = EmptyText

\* nothing of a conversation is left: no turn, no streaming content, no loading
\* flag, no request in flight that has not been cancelled
Quiet ==
    /\ messages = <<>>
    /\ streamingContent = EmptyText
    /\ ~isLoading
    /\ \A r \in ReqIds : ~InFlight(r)

\* C37: handleNewChat leaves the transcript and the streaming content empty, the
\* loading flag reset and no request in flight that is not cancelled, and every
\* later step that is not a call of handleSendMessage keeps it so.
C37_NewChatStep ==
    /\ HandleNewChat => Quiet'
    /\ (Quiet /\ ~Submits) => Quiet'
C37_NewChatResets == [][C37_NewChatStep]_vars
C37_Witness ==
    /\ reqs[1].aborted
    /\ reqs[1].pc = "done"
    /\ reqs[1].pubs # <<>>
    /\ Quiet
    /\ abortControllerRef = 0
    /\ nextReq = 2

---------------------------------------------------------------------------
(* SpecTurnsFair: SpecTurns when every awaited promise settles *)

\* the promise that request r awaits settles: the fetch resolves or rejects, a
\* read resolves with the body or with done or rejects, an abort rejects it
Settles(r) ==
    \/ \E i \in ScriptIds : FetchResolve(r, i)
    \/ \E st \in NotOkStatuses : FetchNotOk(r, st)
    \/ FetchReject(r)
    \/ \E k \in 1..MaxBody : reqs[r].pc = "reading" /\ reqs[r].pos = 0 /\ ReadChunk(r, k)
    \/ ReadDone(r)
    \/ ReadReject(r)
    \/ AbortReject(r)

SpecTurnsFair ==
    SpecTurns /\ \A r \in ReqIds : WF_vars(Settles(r) /\ UNCHANGED exceptClient)

\* C33: every request that awaits its fetch or a read eventually returns, and
\* whenever the loading flag is set, eventually it is reset with the stored
\* controller cleared.
C33_RequestsFinish ==
    /\ \A r \in ReqIds : Alive(reqs[r]) ~> (reqs[r].pc = "done")
    /\ isLoading ~> (~isLoading /\ abortControllerRef = 0)
C33_Witness ==
    /\ ReadToEnd(1)
    /\ ~reqs[1].aborted
    /\ reqs[1].turns = <<Hello>>
    /\ ~isLoading
    /\ abortControllerRef = 0

---------------------------------------------------------------------------
(* SpecRelayFair: SpecRelay when the upstream call settles and the upstream *)
(* stream terminates or fails                                              *)

SpecRelayFair ==
    /\ SpecRelay
    /\ WF_vars((CreateResolve \/ \E e \in Errors : CreateReject(e)) /\ UNCHANGED exceptRelay)
    /\ WF_vars((UpstreamEnd \/ \E e \in Errors : UpstreamThrow(e)) /\ UNCHANGED exceptRelay)

\* C34: a streaming request that passed validation eventually has its response
\* ended; once the response is ended it stays ended and nothing more is written
\* to it.
C34_EndedStep ==
    resEnded => resEnded' /\ resFrames' = resFrames /\ lateWrites' = lateWrites
C34_ResponseEndsOnce ==
    /\ (spc = "creating") ~> resEnded
    /\ [](lateWrites = 0)
    /\ [][C34_EndedStep]_vars
C34_Witness ==
    /\ resEnded
    /\ spc = "closed"
    /\ caught # NoError
    /\ Len(consumed) >= 1
    /\ Len(resFrames) >= 2
    /\ lateWrites = 0

---------------------------------------------------------------------------
(* SpecStorage: calls of the session store on valid storage *)

\* the ids that can be deleted and made active: those of the sessions and one more
CallIds == SessionIds \cup {"c"}
\* storage that is valid at the start: no item, or an array of stored sessions
\* with one session per id
ValidSessions ==
    {<<>>,
     Json(<<ChatSession("a", <<>>, 1)>>),
     Json(<<ChatSession("b", <<MessageAt(1)>>, 2), ChatSession("a", <<>>, 2)>>)}

InitStorageSpec ==
    /\ localStorage \in [sessions : {NoItem} \cup {Item(ss) : ss \in ValidSessions},
                         active : {Null, "a"}]
    /\ call = [fn |-> "none", id |-> Null, session |-> <<>>, before |-> localStorage]
    /\ InitRelayIdle
    /\ InitClient
    /\ InitDecoder
    /\ InitInput
    /\ InitFormat

NextStorageSpec ==
    \/ \E s \in Sessions : SaveSession(s) /\ UNCHANGED exceptStorage
    \/ \E id \in CallIds : DeleteSession(id) /\ UNCHANGED exceptStorage
    \/ \E id \in CallIds : SetActiveSessionId(id) /\ UNCHANGED exceptStorage
    \/ ClearActiveSessionId /\ UNCHANGED exceptStorage

SpecStorage == InitStorageSpec /\ [][NextStorageSpec]_vars

\* the sessions of a list whose id is in ids, in the order of the list
WithIds(ss, ids) == SelectSeq(ss, LAMBDA s : s.id \in ids)
OnePerId(ss) == \A i, j \in 1..Len(ss) : ss[i].id = ss[j].id => i = j

\* C38: the stored list holds at most one session per id; after saveSession(s)
\* the sessions with another id are those stored before, exactly one stored
\* session has the id of s, and getSession(s.id) returns s.
C38_SaveReplacesOrAdds ==
    LET now == LoadSessions(localStorage)
        before == LoadSessions(call.before)
    IN  /\ OnePerId(now)
        /\ call.fn = "saveSession" =>
            LET s == call.session[1]
            IN  /\ {now[k] : k \in {j \in 1..Len(now) : now[j].id # s.id}}
                     = {before[k] : k \in {j \in 1..Len(before) : before[j].id # s.id}}
                /\ Len(WithIds(now, {s.id})) = 1
                /\ GetSession(localStorage, s.id) = <<s>>

\* C39: after deleteSession(id) the stored sessions are those stored before
\* whose id is not id, unchanged and in their order; the active session id is
\* cleared if it was id and is what it was otherwise; getSession(id) returns
\* null and the active session id is not id.
C39_DeleteRemovesExactly ==
    call.fn = "deleteSession" =>
        LET now == LoadSessions(localStorage)
            before == LoadSessions(call.before)
        IN  /\ now = WithIds(before, CallIds \ {call.id})
            /\ GetActiveSessionId(localStorage) =
                  IF GetActiveSessionId(call.before) = call.id
                  THEN Null
                  ELSE GetActiveSessionId(call.before)
            /\ GetSession(localStorage, call.id) = <<>>
            /\ GetActiveSessionId(localStorage) # call.id
C39_Witness ==
    /\ call.fn = "deleteSession"
    /\ call.id = "a"
    /\ GetActiveSessionId(call.before) = "a"
    /\ Len(LoadSessions(call.before)) = 2
    /\ Len(LoadSessions(localStorage)) = 1
    /\ LoadSessions(localStorage)[1].id = "b"
    /\ GetActiveSessionId(localStorage) = Null

=============================================================================
